---- MODULE Spec2Model ----
(***************************************************************************)
(* Session lifecycle of the conversation API (api_server.py) over the      *)
(* Redis-backed session store (session_manager.py).  Every Redis command   *)
(* (GET, SETEX, DEL) is one atomic step; a request handler is a process    *)
(* that performs its Redis commands in program order, holding the session  *)
(* objects it deserialized in local variables between the commands.        *)
(***************************************************************************)
EXTENDS Integers, Sequences, FiniteSets, TLC

\* ---------------------------------------------------------------- bounds
NumSessions == 2        \* session ids uuid4 can hand out
NumProcs == 2           \* request handlers running concurrently
MaxRequests == 4        \* requests the server accepts in one run
MaxClock == 1           \* readings of datetime.now(), in hours since the server started
MaxSymptoms == 2        \* longest list of reported_symptoms beside the one-alias lists
MaxMessages == 2        \* messages of a session in the runs of the history route

SessionIds == 1..NumSessions
Procs == 1..NumProcs

\* Python's Optional[T]: None, or Some(v) holding the value v
None == <<>>
Some(v) == <<v>>
Val(o) == o[1]

\* ---------------------------------------------------------------- inputs
\* text of the "message" field of a post-message body
UserTexts == {"I had hives after the last scan"}
\* a body that is JSON but no object: the number 5
NumberBody == <<"5", "application/json">>
\* request bodies (request.get_json()): without a "message" key, carrying a
\* text, or a number
Bodies == {None, NumberBody} \cup {Some(t) : t \in UserTexts}
\* reply texts of the conversational model
BotReplies == {"Tell me more", "Thank you, I have everything I need."}
\* str(e) of an exception raised by the model client (empty for one without arguments)
ModelErrors == {"Connection error.", ""}
\* greeting appended by start_conversation
initial_greeting == "Hello! I'm Cornelius."
\* max_age_hours a cleanup request carries (24 when the body has none)
MaxAgeHours == {0, 1, 24}

VARIABLES
    redis,          \* the stored keys: session id -> stored ConversationSession
    ttl,            \* the stored keys: session id -> the clock reading at which Redis expires it
    allocated,      \* session ids uuid4 has returned so far
    pc,             \* per handler: its position
    route,          \* per handler: the route it is serving
    sid,            \* per handler: the session_id route argument
    session,        \* per handler: send_message's local `session` object
    upd,            \* per handler: the local `session` inside update_session / add_message
    user_input,     \* per handler: send_message's user_input
    resp,           \* per handler: the response the route returns once its update is saved
    result,         \* per handler: the last response returned
    called,         \* per handler: the model collaborator was invoked by the current/last request
    requests,       \* number of requests accepted so far
    completedOnce,  \* history: ids whose stored status has been "completed" at some time
    now,            \* the reading datetime.datetime.now() returns
    keys,           \* per handler: keys of list_sessions / cleanup_old_sessions still to visit
    sessions,       \* per handler: the `sessions` list list_sessions is building
    cutoff_time,    \* per handler: cleanup_old_sessions' cutoff_time
    deleted_count,  \* per handler: cleanup_old_sessions' deleted_count
    max_age_hours,  \* per handler: cleanup_sessions' max_age_hours
    in_symptom,     \* estimate_severity's argument `symptom`
    in_context,     \* estimate_severity's argument `context`
    out_severity,   \* what estimate_severity returned, once it has
    out_normalized, \* what normalize_symptom returned, once it has
    in_data,        \* the JSON document parse_patient_json loads
    out_entries,    \* how parse_patient_json ended: its entries or the exception raised
    out_ehr,        \* what format_for_ehr_entry returned for these entries
    out_summary     \* what generate_clinical_summary returned for these entries

\* locals of the two key scans
scan == <<keys, sessions, cutoff_time, deleted_count, max_age_hours>>

\* arguments and result of the mapper call
mapper == <<in_symptom, in_context, out_severity, out_normalized, in_data, out_entries,
            out_ehr, out_summary>>

vars == <<redis, ttl, allocated, pc, route, sid, session, upd, user_input, resp, result, called,
          requests, completedOnce, now, keys, sessions, cutoff_time, deleted_count,
          max_age_hours, in_symptom, in_context, out_severity, out_normalized, in_data,
          out_entries, out_ehr, out_summary>>

\* state of the API server and its store
server == <<redis, ttl, allocated, pc, route, sid, session, upd, user_input, resp, result, called,
            requests, completedOnce, now, scan>>

\* ------------------------------------------------------- session_manager
\* datetime.isoformat() and datetime.fromisoformat() of a clock reading
isoformat(t) == [iso |-> t]
fromisoformat(s) == s.iso

\* a mutant of ConversationSession: the timestamps are those of the server's start
ConversationSession_Epoch(id) ==
    [session_id |-> id, messages |-> <<>>, status |-> "active",
     created_at |-> isoformat(0), updated_at |-> isoformat(0),
     patient_data |-> None, pro_ctcae_data |-> None, error_message |-> None]

\* the dataclass with its defaults; both default factories read the clock
ConversationSession(id) ==
    [session_id |-> id, messages |-> <<>>, status |-> "active",
     created_at |-> isoformat(now), updated_at |-> isoformat(now),
     patient_data |-> None, pro_ctcae_data |-> None, error_message |-> None]

Message(role, content) == [role |-> role, content |-> content]

\* SessionManager.get_session: GET key
get_session(id) == IF id \in DOMAIN redis THEN Some(redis[id]) ELSE None

\* SESSION_TTL_HOURS = int(os.environ.get("SESSION_TTL_HOURS", "24"))
SESSION_TTL_HOURS == 24

\* self.session_ttl = SESSION_TTL_HOURS * 3600, in seconds
session_ttl == SESSION_TTL_HOURS * 3600

\* a mutant of Expiry: a save keeps the expiry the key already has
Expiry_Keep(id) == IF id \in DOMAIN ttl THEN ttl[id] ELSE now + session_ttl \div 3600

\* SETEX key session_ttl value: the key expires session_ttl seconds after the
\* command; the clock counts hours
Expiry(id) == now + session_ttl \div 3600

\* a mutant of SaveSession: all sessions share one key, so a save replaces the store
SaveSession_OneKey(s) ==
    /\ redis' = [id \in {s.session_id} |-> s]
    /\ ttl' = [id \in {s.session_id} |-> Expiry(id)]
    /\ completedOnce' = IF s.status = "completed"
                        THEN completedOnce \cup {s.session_id}
                        ELSE completedOnce

\* SessionManager._save_session: SETEX key ttl json -- whole-record overwrite,
\* also when the key is absent
SaveSession(s) ==
    /\ redis' = [id \in DOMAIN redis \cup {s.session_id} |->
                    IF id = s.session_id THEN s ELSE redis[id]]
    /\ ttl' = [id \in DOMAIN redis \cup {s.session_id} |->
                  IF id = s.session_id THEN Expiry(id) ELSE ttl[id]]
    /\ completedOnce' = IF s.status = "completed"
                        THEN completedOnce \cup {s.session_id}
                        ELSE completedOnce

\* the setattr loop of update_session for the keyword sets the routes pass
SetAttrs(s, kwargs) ==
    [f \in DOMAIN s |-> IF f \in DOMAIN kwargs THEN kwargs[f] ELSE s[f]]

\* session.messages.append(message)
AppendTo(s, m) == [s EXCEPT !.messages = Append(@, m)]

\* session.updated_at = datetime.datetime.now().isoformat()
Touch(s) == [s EXCEPT !.updated_at = isoformat(now)]

\* ------------------------------------------------------ pro_ctcae_mapper
\* Texts the mapper inspects are sequences of one-character strings.
Severity == [NONE |-> 0, MILD |-> 1, MODERATE |-> 2, SEVERE |-> 3, VERY_SEVERE |-> 4]
Frequency == [NEVER |-> 0, RARELY |-> 1, OCCASIONALLY |-> 2, FREQUENTLY |-> 3,
              ALMOST_CONSTANTLY |-> 4]
Interference == [NOT_AT_ALL |-> 0, A_LITTLE_BIT |-> 1, SOMEWHAT |-> 2, QUITE_A_BIT |-> 3,
                 VERY_MUCH |-> 4]

UpperChars == <<"A", "B", "C", "D", "E", "F", "G", "H", "I", "J", "K", "L", "M",
                "N", "O", "P", "Q", "R", "S", "T", "U", "V", "W", "X", "Y", "Z">>
LowerChars == <<"a", "b", "c", "d", "e", "f", "g", "h", "i", "j", "k", "l", "m",
                "n", "o", "p", "q", "r", "s", "t", "u", "v", "w", "x", "y", "z">>
Whitespace == {" ", "\t", "\n", "\r"}

SetMin(S) == CHOOSE x \in S : \A y \in S : x <= y
SetMax(S) == CHOOSE x \in S : \A y \in S : x >= y

\* str.lower()
LowerChar(c) ==
    IF \E i \in 1..Len(UpperChars) : UpperChars[i] = c
    THEN LowerChars[CHOOSE i \in 1..Len(UpperChars) : UpperChars[i] = c]
    ELSE c
lower(t) == [i \in 1..Len(t) |-> LowerChar(t[i])]

\* str.strip()
strip(t) ==
    LET keep == {i \in 1..Len(t) : t[i] \notin Whitespace}
    IN IF keep = {} THEN <<>> ELSE SubSeq(t, SetMin(keep), SetMax(keep))

\* Python's `kw in text` on strings
Contains(text, kw) ==
    \E i \in 0..(Len(text) - Len(kw)) : SubSeq(text, i + 1, i + Len(kw)) = kw

\* self.symptom_mappings: lower-cased phrase -> canonical key
symptom_mappings ==
       (<<"h", "i", "v", "e", "s">> :> "hives")
    @@ (<<"u", "r", "t", "i", "c", "a", "r", "i", "a">> :> "hives")
    @@ (<<"w", "e", "l", "t", "s">> :> "hives")
    @@ (<<"i", "t", "c", "h", "i", "n", "g">> :> "itching")
    @@ (<<"i", "t", "c", "h", "y">> :> "itching")
    @@ (<<"p", "r", "u", "r", "i", "t", "u", "s">> :> "itching")
    @@ (<<"i", "t", "c", "h">> :> "itching")
    @@ (<<"s", "w", "e", "l", "l", "i", "n", "g">> :> "swelling")
    @@ (<<"e", "d", "e", "m", "a">> :> "swelling")
    @@ (<<"p", "u", "f", "f", "i", "n", "e", "s", "s">> :> "swelling")
    @@ (<<"a", "n", "g", "i", "o", "e", "d", "e", "m", "a">> :> "swelling")
    @@ (<<"f", "a", "c", "i", "a", "l", " ", "s", "w", "e", "l", "l", "i", "n", "g">> :> "swelling")
    @@ (<<"t", "h", "r", "o", "a", "t", " ", "s", "w", "e", "l", "l", "i", "n", "g">> :> "swelling")
    @@ (<<"s", "h", "o", "r", "t", "n", "e", "s", "s", " ", "o", "f", " ", "b", "r", "e", "a", "t", "h">> :> "shortness_of_breath")
    @@ (<<"d", "i", "f", "f", "i", "c", "u", "l", "t", "y", " ", "b", "r", "e", "a", "t", "h", "i", "n", "g">> :> "shortness_of_breath")
    @@ (<<"b", "r", "e", "a", "t", "h", "l", "e", "s", "s", "n", "e", "s", "s">> :> "shortness_of_breath")
    @@ (<<"d", "y", "s", "p", "n", "e", "a">> :> "shortness_of_breath")
    @@ (<<"t", "r", "o", "u", "b", "l", "e", " ", "b", "r", "e", "a", "t", "h", "i", "n", "g">> :> "shortness_of_breath")
    @@ (<<"w", "h", "e", "e", "z", "i", "n", "g">> :> "wheezing")
    @@ (<<"w", "h", "e", "e", "z", "e">> :> "wheezing")
    @@ (<<"r", "a", "s", "h">> :> "rash")
    @@ (<<"s", "k", "i", "n", " ", "r", "e", "a", "c", "t", "i", "o", "n">> :> "rash")
    @@ (<<"e", "r", "u", "p", "t", "i", "o", "n">> :> "rash")
    @@ (<<"n", "a", "u", "s", "e", "a">> :> "nausea")
    @@ (<<"v", "o", "m", "i", "t", "i", "n", "g">> :> "vomiting")
    @@ (<<"d", "i", "z", "z", "i", "n", "e", "s", "s">> :> "dizziness")
    @@ (<<"d", "i", "z", "z", "y">> :> "dizziness")
    @@ (<<"h", "e", "a", "d", "a", "c", "h", "e">> :> "headache")
    @@ (<<"c", "h", "e", "s", "t", " ", "t", "i", "g", "h", "t", "n", "e", "s", "s">> :> "chest_tightness")
    @@ (<<"c", "h", "e", "s", "t", " ", "p", "a", "i", "n">> :> "chest_tightness")
    @@ (<<"a", "n", "x", "i", "e", "t", "y">> :> "anxiety")
    @@ (<<"a", "n", "x", "i", "o", "u", "s">> :> "anxiety")
    @@ (<<"p", "a", "l", "p", "i", "t", "a", "t", "i", "o", "n", "s">> :> "heart_palpitations")
    @@ (<<"h", "e", "a", "r", "t", " ", "r", "a", "c", "i", "n", "g">> :> "heart_palpitations")

\* self.pro_ctcae_items: canonical key -> ProCtcaeItem
pro_ctcae_items ==
       ("hives" :> [symptom_term |-> "Hives", code |-> "PRO-CTCAE_hives",
           attributes |-> {"Presence"}])
    @@ ("itching" :> [symptom_term |-> "Itching", code |-> "PRO-CTCAE_itching",
           attributes |-> {"Severity"}])
    @@ ("rash" :> [symptom_term |-> "Rash", code |-> "PRO-CTCAE_rash",
           attributes |-> {"Presence"}])
    @@ ("skin_redness" :> [symptom_term |-> "Skin redness", code |-> "PRO-CTCAE_erythema",
           attributes |-> {"Presence"}])
    @@ ("shortness_of_breath" :> [symptom_term |-> "Shortness of breath", code |-> "PRO-CTCAE_dyspnea",
           attributes |-> {"Severity", "Interference"}])
    @@ ("wheezing" :> [symptom_term |-> "Wheezing", code |-> "PRO-CTCAE_wheezing",
           attributes |-> {"Severity"}])
    @@ ("cough" :> [symptom_term |-> "Cough", code |-> "PRO-CTCAE_cough",
           attributes |-> {"Severity", "Interference"}])
    @@ ("swelling" :> [symptom_term |-> "Swelling", code |-> "PRO-CTCAE_swelling",
           attributes |-> {"Frequency", "Severity", "Interference"}])
    @@ ("heart_palpitations" :> [symptom_term |-> "Heart palpitations", code |-> "PRO-CTCAE_palpitations",
           attributes |-> {"Frequency", "Severity"}])
    @@ ("nausea" :> [symptom_term |-> "Nausea", code |-> "PRO-CTCAE_nausea",
           attributes |-> {"Frequency", "Severity"}])
    @@ ("vomiting" :> [symptom_term |-> "Vomiting", code |-> "PRO-CTCAE_vomiting",
           attributes |-> {"Frequency", "Severity"}])
    @@ ("chills" :> [symptom_term |-> "Chills", code |-> "PRO-CTCAE_chills",
           attributes |-> {"Frequency", "Severity"}])
    @@ ("dizziness" :> [symptom_term |-> "Dizziness", code |-> "PRO-CTCAE_dizziness",
           attributes |-> {"Severity", "Interference"}])
    @@ ("headache" :> [symptom_term |-> "Headache", code |-> "PRO-CTCAE_headache",
           attributes |-> {"Frequency", "Severity", "Interference"}])
    @@ ("anxiety" :> [symptom_term |-> "Anxious", code |-> "PRO-CTCAE_anxiety",
           attributes |-> {"Frequency", "Severity", "Interference"}])
    @@ ("chest_tightness" :> [symptom_term |-> "Chest pain", code |-> "PRO-CTCAE_chest_pain",
           attributes |-> {"Frequency", "Severity", "Interference"}])

\* severity_keywords of estimate_severity, in dictionary (insertion) order
severity_keywords == <<
    [keyword |-> <<"m", "i", "l", "d">>, level |-> 1],
    [keyword |-> <<"m", "o", "d", "e", "r", "a", "t", "e">>, level |-> 2],
    [keyword |-> <<"s", "e", "v", "e", "r", "e">>, level |-> 3],
    [keyword |-> <<"v", "e", "r", "y", " ", "s", "e", "v", "e", "r", "e">>, level |-> 4],
    [keyword |-> <<"s", "l", "i", "g", "h", "t">>, level |-> 1],
    [keyword |-> <<"b", "a", "d">>, level |-> 2],
    [keyword |-> <<"t", "e", "r", "r", "i", "b", "l", "e">>, level |-> 3],
    [keyword |-> <<"e", "x", "t", "r", "e", "m", "e">>, level |-> 4]
>>

\* a mutant of normalize_symptom: the text is lower-cased but not trimmed
normalize_symptom_NoStrip(symptom) ==
    IF lower(symptom) \in DOMAIN symptom_mappings
    THEN Some(symptom_mappings[lower(symptom)])
    ELSE None

\* ProCtcaeMapper.normalize_symptom
normalize_symptom(symptom) ==
    LET symptom_lower == strip(lower(symptom))
    IN IF symptom_lower \in DOMAIN symptom_mappings
       THEN Some(symptom_mappings[symptom_lower])
       ELSE None

critical_symptoms == {"shortness_of_breath", "chest_tightness", "throat_swelling"}

\* a mutant of estimate_severity: without keyword and history it reports no severity
estimate_severity_NoDefault(symptom, context) ==
    LET hits == {i \in 1..Len(severity_keywords) :
                    Contains(lower(context.full_summary), severity_keywords[i].keyword)}
    IN IF hits # {} THEN severity_keywords[SetMin(hits)].level
       ELSE IF context.has_previous_reaction THEN Severity.MILD
       ELSE Severity.NONE

\* ProCtcaeMapper.estimate_severity: the first keyword, in the dictionary's
\* insertion order, that occurs in the lower-cased full_summary
estimate_severity(symptom, context) ==
    LET has_previous == context.has_previous_reaction
        full_summary == lower(context.full_summary)
        hits == {i \in 1..Len(severity_keywords) :
                    Contains(full_summary, severity_keywords[i].keyword)}
    IN IF hits # {} THEN severity_keywords[SetMin(hits)].level
       ELSE IF has_previous
            THEN IF /\ normalize_symptom(symptom) # None
                    /\ Val(normalize_symptom(symptom)) \in critical_symptoms
                 THEN Severity.MODERATE
                 ELSE Severity.MILD
            ELSE Severity.MILD

\* a mutant of InterferenceOf: interference repeats the severity level
InterferenceOf_Copy(severity) == severity

\* the interference branch of parse_patient_json
InterferenceOf(severity) ==
    IF severity = None THEN None
    ELSE IF Val(severity) >= Severity.SEVERE THEN Some(Interference.QUITE_A_BIT)
    ELSE IF Val(severity) >= Severity.MODERATE THEN Some(Interference.SOMEWHAT)
    ELSE Some(Interference.A_LITTLE_BIT)

\* `if normalized and normalized in self.pro_ctcae_items`
Mapped(symptom) ==
    /\ normalize_symptom(symptom) # None
    /\ Val(normalize_symptom(symptom)) \in DOMAIN pro_ctcae_items

\* a mutant of SymptomEntry: frequency is set for every symptom
SymptomEntry_Frequency(symptom, data) ==
    LET item == pro_ctcae_items[Val(normalize_symptom(symptom))]
        sev == IF "Severity" \in item.attributes
               THEN Some(estimate_severity(symptom, data)) ELSE None
    IN [symptom_term |-> item.symptom_term,
        code |-> item.code,
        severity |-> sev,
        frequency |-> Some(Frequency.OCCASIONALLY),
        interference |-> IF "Interference" \in item.attributes
                         THEN InterferenceOf(sev) ELSE None,
        presence |-> IF "Presence" \in item.attributes THEN Some(TRUE) ELSE None,
        raw_text |-> Some(symptom)]

\* the ProCtcaeEntry built for one mapped symptom
SymptomEntry(symptom, data) ==
    LET item == pro_ctcae_items[Val(normalize_symptom(symptom))]
        severity == IF "Severity" \in item.attributes
                    THEN Some(estimate_severity(symptom, data)) ELSE None
    IN [symptom_term |-> item.symptom_term,
        code |-> item.code,
        severity |-> severity,
        frequency |-> IF "Frequency" \in item.attributes
                      THEN Some(Frequency.OCCASIONALLY) ELSE None,
        interference |-> IF "Interference" \in item.attributes
                         THEN InterferenceOf(severity) ELSE None,
        presence |-> IF "Presence" \in item.attributes THEN Some(TRUE) ELSE None,
        raw_text |-> Some(symptom)]

RECURSIVE SymptomEntries(_, _)
SymptomEntries(symptoms, data) ==
    IF symptoms = <<>> THEN <<>>
    ELSE LET rest == SymptomEntries(Tail(symptoms), data)
         IN IF Mapped(Head(symptoms))
            THEN <<SymptomEntry(Head(symptoms), data)>> \o rest
            ELSE rest

concern == <<"c", "o", "n", "c", "e", "r", "n">>
no_concerns == <<"n", "o", " ", "c", "o", "n", "c", "e", "r", "n", "s">>
expressed_concerns == <<"P", "a", "t", "i", "e", "n", "t", " ", "e", "x", "p", "r", "e", "s", "s", "e", "d", " ", "c", "o", "n", "c", "e", "r", "n", "s">>

\* a mutant of AnxietyTrigger: the literal "no concerns" is not excluded
AnxietyTrigger_Literal(concerns) ==
    /\ concerns # <<>>
    /\ Contains(lower(concerns), concern)

\* the anxiety trigger of parse_patient_json
AnxietyTrigger(concerns) ==
    /\ concerns # <<>>
    /\ Contains(lower(concerns), concern)
    /\ lower(concerns) # no_concerns

anxiety_entry ==
    [symptom_term |-> pro_ctcae_items["anxiety"].symptom_term,
     code |-> pro_ctcae_items["anxiety"].code,
     severity |-> Some(Severity.MILD),
     frequency |-> Some(Frequency.OCCASIONALLY),
     interference |-> Some(Interference.A_LITTLE_BIT),
     presence |-> None,
     raw_text |-> Some(expressed_concerns)]

\* ProCtcaeMapper.parse_patient_json on the summary the file holds
parse_patient_json(data) ==
    SymptomEntries(data.reported_symptoms, data)
        \o (IF AnxietyTrigger(data.patient_concerns) THEN <<anxiety_entry>> ELSE <<>>)

\* ---------------------------------------------- the loaded JSON document
\* values json.load produces: a string, null, a number, a boolean, a list; a
\* key the document does not have holds Missing
JStr(t) == [str |-> t]
JNull == [null |-> TRUE]
JNum(n) == [num |-> n]
JBool(b) == [bool |-> b]
JList(l) == [list |-> l]
Missing == [missing |-> TRUE]

IsStr(v) == DOMAIN v = {"str"}
IsList(v) == DOMAIN v = {"list"}

\* dict.get(key, default)
Get(d, key, default) == IF d[key] = Missing THEN default ELSE d[key]

\* Python truthiness of a JSON value
JTruthy(v) ==
    IF IsStr(v) THEN v.str # <<>>
    ELSE IF IsList(v) THEN v.list # <<>>
    ELSE IF DOMAIN v = {"num"} THEN v.num # 0
    ELSE IF DOMAIN v = {"bool"} THEN v.bool
    ELSE FALSE

\* the loop body of parse_patient_json raises for this item: normalize_symptom
\* calls symptom.lower(), estimate_severity calls full_summary.lower()
SymptomRaises(item, doc) ==
    \/ ~IsStr(item)
    \/ /\ Mapped(item.str)
       /\ "Severity" \in pro_ctcae_items[Val(normalize_symptom(item.str))].attributes
       /\ ~IsStr(Get(doc, "full_summary", JStr(<<>>)))

\* parse_patient_json raises on this document
ParseRaises(doc) ==
    LET reported == Get(doc, "reported_symptoms", JList(<<>>))
        concerns == Get(doc, "patient_concerns", JStr(<<>>))
    IN \/ ~IsList(reported)
       \/ \E i \in DOMAIN reported.list : SymptomRaises(reported.list[i], doc)
       \/ JTruthy(concerns) /\ ~IsStr(concerns)

\* the values parse_patient_json and estimate_severity read from a document
\* they do not raise on
Decoded(doc) ==
    LET reported == Get(doc, "reported_symptoms", JList(<<>>))
        summary == Get(doc, "full_summary", JStr(<<>>))
        concerns == Get(doc, "patient_concerns", JStr(<<>>))
    IN [reported_symptoms |-> [i \in DOMAIN reported.list |-> reported.list[i].str],
        has_previous_reaction |-> JTruthy(Get(doc, "has_previous_reaction", JBool(FALSE))),
        full_summary |-> IF IsStr(summary) THEN summary.str ELSE <<>>,
        patient_concerns |-> IF IsStr(concerns) THEN concerns.str ELSE <<>>]

\* ProCtcaeMapper.parse_patient_json on a loaded document: the entries, or the
\* exception that ends the call
ParseDocument(doc) ==
    IF ~IsList(Get(doc, "reported_symptoms", JList(<<>>)))
    THEN [raised |-> "TypeError"]
    ELSE IF ParseRaises(doc)
    THEN [raised |-> "AttributeError"]
    ELSE [entries |-> parse_patient_json(Decoded(doc))]

\* Enum(value).name, at index value + 1
SeverityNames ==
    <<<<"N", "O", "N", "E">>,
      <<"M", "I", "L", "D">>,
      <<"M", "O", "D", "E", "R", "A", "T", "E">>,
      <<"S", "E", "V", "E", "R", "E">>,
      <<"V", "E", "R", "Y", "_", "S", "E", "V", "E", "R", "E">>>>
FrequencyNames ==
    <<<<"N", "E", "V", "E", "R">>,
      <<"R", "A", "R", "E", "L", "Y">>,
      <<"O", "C", "C", "A", "S", "I", "O", "N", "A", "L", "L", "Y">>,
      <<"F", "R", "E", "Q", "U", "E", "N", "T", "L", "Y">>,
      <<"A", "L", "M", "O", "S", "T", "_", "C", "O", "N", "S", "T", "A", "N", "T", "L", "Y">>>>
InterferenceNames ==
    <<<<"N", "O", "T", "_", "A", "T", "_", "A", "L", "L">>,
      <<"A", "_", "L", "I", "T", "T", "L", "E", "_", "B", "I", "T">>,
      <<"S", "O", "M", "E", "W", "H", "A", "T">>,
      <<"Q", "U", "I", "T", "E", "_", "A", "_", "B", "I", "T">>,
      <<"V", "E", "R", "Y", "_", "M", "U", "C", "H">>>>

\* str.replace(old, new) for one-character old and new
replace(t, old, new) == [i \in 1..Len(t) |-> IF t[i] = old THEN new ELSE t[i]]

UpperChar(c) ==
    IF \E i \in 1..Len(LowerChars) : LowerChars[i] = c
    THEN UpperChars[CHOOSE i \in 1..Len(LowerChars) : LowerChars[i] = c]
    ELSE c
IsLetter(c) ==
    \E i \in 1..Len(LowerChars) : LowerChars[i] = c \/ UpperChars[i] = c

\* str.title(): a letter is upper-cased after a non-letter, lower-cased after a letter
title(t) ==
    [i \in 1..Len(t) |->
        IF i > 1 /\ IsLetter(t[i - 1]) THEN LowerChar(t[i]) ELSE UpperChar(t[i])]

\* Enum(value).name.replace("_", " ").title()
SeverityLabel == [i \in 1..Len(SeverityNames) |-> title(replace(SeverityNames[i], "_", " "))]
FrequencyLabel == [i \in 1..Len(FrequencyNames) |-> title(replace(FrequencyNames[i], "_", " "))]
InterferenceLabel ==
    [i \in 1..Len(InterferenceNames) |-> title(replace(InterferenceNames[i], "_", " "))]

Labelled(value, labels) == [value |-> value, label |-> labels[value + 1]]

\* a mutant of EhrEntry: every label is taken from the Severity enum
EhrEntry_SeverityLabels(entry) ==
    [symptom_term |-> entry.symptom_term, code |-> entry.code,
     patient_reported_text |-> entry.raw_text]
    @@ (IF entry.severity # None
        THEN [severity |-> Labelled(Val(entry.severity), SeverityLabel)] ELSE <<>>)
    @@ (IF entry.frequency # None
        THEN [frequency |-> Labelled(Val(entry.frequency), SeverityLabel)] ELSE <<>>)
    @@ (IF entry.interference # None
        THEN [interference |-> Labelled(Val(entry.interference), SeverityLabel)] ELSE <<>>)
    @@ (IF entry.presence # None THEN [presence |-> Val(entry.presence)] ELSE <<>>)

\* one entry_dict of format_for_ehr_entry: a key only for a non-null attribute
EhrEntry(entry) ==
    [symptom_term |-> entry.symptom_term, code |-> entry.code,
     patient_reported_text |-> entry.raw_text]
    @@ (IF entry.severity # None
        THEN [severity |-> Labelled(Val(entry.severity), SeverityLabel)] ELSE <<>>)
    @@ (IF entry.frequency # None
        THEN [frequency |-> Labelled(Val(entry.frequency), FrequencyLabel)] ELSE <<>>)
    @@ (IF entry.interference # None
        THEN [interference |-> Labelled(Val(entry.interference), InterferenceLabel)] ELSE <<>>)
    @@ (IF entry.presence # None THEN [presence |-> Val(entry.presence)] ELSE <<>>)

\* ProCtcaeMapper.format_for_ehr_entry
format_for_ehr_entry(entries) ==
    [pro_ctcae_version |-> "1.0",
     assessment_date |-> None,
     entries |-> [i \in 1..Len(entries) |-> EhrEntry(entries[i])]]

\* generate_clinical_summary: f"{entry.symptom_term} ({entry.code})"
symptom_text(entry) == entry.symptom_term \o " (" \o entry.code \o ")"

\* a mutant of Bucket: only a severity above SEVERE counts as severe
Bucket_Above(entry) ==
    IF entry.severity = None THEN "MILD"
    ELSE IF Val(entry.severity) > Severity.SEVERE THEN "SEVERE"
    ELSE IF Val(entry.severity) >= Severity.MODERATE THEN "MODERATE"
    ELSE "MILD"

\* generate_clinical_summary: the list the loop appends an entry's text to
Bucket(entry) ==
    IF entry.severity = None THEN "MILD"
    ELSE IF Val(entry.severity) >= Severity.SEVERE THEN "SEVERE"
    ELSE IF Val(entry.severity) >= Severity.MODERATE THEN "MODERATE"
    ELSE "MILD"

\* severe_symptoms, moderate_symptoms or mild_symptoms after the loop
RECURSIVE BucketTexts(_, _)
BucketTexts(entries, bucket) ==
    IF entries = <<>> THEN <<>>
    ELSE (IF Bucket(Head(entries)) = bucket THEN <<symptom_text(Head(entries))>> ELSE <<>>)
            \o BucketTexts(Tail(entries), bucket)

\* sep.join(items)
RECURSIVE join(_, _)
join(sep, items) ==
    IF items = <<>> THEN ""
    ELSE IF Len(items) = 1 THEN items[1]
    ELSE items[1] \o sep \o join(sep, Tail(items))

\* "-" * 40
dashes == "----------------------------------------"

\* ProCtcaeMapper.generate_clinical_summary
generate_clinical_summary(entries) ==
    IF entries = <<>> THEN "No PRO-CTCAE symptoms reported."
    ELSE LET line(bucket) ==
                 IF BucketTexts(entries, bucket) = <<>> THEN ""
                 ELSE bucket \o ": " \o join(", ", BucketTexts(entries, bucket)) \o "\n"
         IN "PRO-CTCAE Assessment Summary:\n"
               \o dashes \o "\n"
               \o line("SEVERE") \o line("MODERATE") \o line("MILD")
               \o dashes \o "\n"
               \o "Total symptoms reported: " \o ToString(Len(entries)) \o "\n"

\* ------------------------------------------------------------ api_server
\* json.loads of the model's summary reply: a dictionary with the keys the
\* extraction prompt asks for, the JSON value null, or a JSONDecodeError
PatientSummaries == {
    [reported_symptoms |-> << <<"h", "i", "v", "e", "s">> >>,
     has_previous_reaction |-> TRUE,
     full_summary |-> <<"s", "e", "v", "e", "r", "e">>,
     patient_concerns |-> no_concerns],
    [reported_symptoms |-> << <<"b", "a", "n", "a", "n", "a">> >>,
     has_previous_reaction |-> FALSE,
     full_summary |-> <<>>,
     patient_concerns |-> <<>>]}
JsonNull == [json |-> "null"]
JsonInvalid == [json |-> "JSONDecodeError"]
JsonReplies == PatientSummaries \cup {JsonNull, JsonInvalid}

\* what anthropic_client.messages.create does for generate_summary
SummaryOutcomes ==
    {[kind |-> "raise", err |-> e] : e \in ModelErrors}
        \cup {[kind |-> "empty"]}
        \cup {[kind |-> "text", json |-> j] : j \in JsonReplies}

\* a mutant of NoContent: the empty reply is passed off as a result without error
NoContent_Silent ==
    [patient_data |-> None, pro_ctcae_data |-> None, error_message |-> None]

\* generate_summary: `if not response.content`
NoContent ==
    [patient_data |-> None, pro_ctcae_data |-> None,
     error_message |-> Some("Model returned no content")]

\* datetime.datetime.now().strftime("%Y%m%d_%H%M%S"), which also names the files
timestamp == [stamp |-> now]

\* generate_summary: (patient_data, pro_ctcae_data, error_message).  The session
\* argument reaches only the model call (session.messages + the extraction
\* prompt), whose outcome is the input `outcome`.
generate_summary(outcome) ==
    IF outcome.kind = "raise"
    THEN [patient_data |-> None, pro_ctcae_data |-> None,
          error_message |-> Some("Error generating summary: " \o outcome.err)]
    ELSE IF outcome.kind = "empty"
    THEN NoContent
    ELSE IF outcome.json = JsonInvalid
    THEN [patient_data |-> None, pro_ctcae_data |-> None,
          error_message |-> Some("Could not parse JSON: Expecting value")]
    ELSE IF outcome.json = JsonNull
    THEN \* parse_patient_json raises: data.get on None
         [patient_data |-> None, pro_ctcae_data |-> None,
          error_message |->
              Some("Error generating summary: 'NoneType' object has no attribute 'get'")]
    ELSE LET entries == parse_patient_json(outcome.json)
         IN [patient_data |-> Some(outcome.json),
             pro_ctcae_data |->
                 IF entries # <<>>
                 THEN Some([format_for_ehr_entry(entries)
                               EXCEPT !.assessment_date = Some(timestamp)]
                           @@ [source_file |-> timestamp,
                               clinical_summary |-> generate_clinical_summary(entries)])
                 ELSE None,
             error_message |-> None]

\* Python truthiness of Optional[str]
Truthy(x) == x # None /\ x # Some("")

\* a mutant of AlreadyCompleted: the early return is never taken
AlreadyCompleted_Never(s) == FALSE

\* end_conversation: `if session.status == "completed"`
AlreadyCompleted(s) == s.status = "completed"

\* a mutant of EndKwargs: the completing update stores no mapping
EndKwargs_NoMapping(summary) ==
    IF Truthy(summary.error_message)
    THEN [status |-> "error", error_message |-> summary.error_message]
    ELSE [status |-> "completed", patient_data |-> summary.patient_data,
          pro_ctcae_data |-> None]

\* a mutant of EndKwargs: the completing update leaves the status out
EndKwargs_NoStatus(summary) ==
    IF Truthy(summary.error_message)
    THEN [status |-> "error", error_message |-> summary.error_message]
    ELSE [patient_data |-> summary.patient_data,
          pro_ctcae_data |-> summary.pro_ctcae_data]

\* keyword arguments end_conversation passes to update_session
EndKwargs(summary) ==
    IF Truthy(summary.error_message)
    THEN [status |-> "error", error_message |-> summary.error_message]
    ELSE [status |-> "completed", patient_data |-> summary.patient_data,
          pro_ctcae_data |-> summary.pro_ctcae_data]

\* response of end_conversation after generate_summary
EndResponse(summary) ==
    IF Truthy(summary.error_message)
    THEN [code |-> 500, error |-> Val(summary.error_message)]
    ELSE [code |-> 200, patient_data |-> summary.patient_data,
          pro_ctcae_data |-> summary.pro_ctcae_data]

\* a mutant of ErrorKwargs: the handler sets the status only
ErrorKwargs_NoMessage(e) == [status |-> "error"]

\* keyword arguments of the `except Exception as e` handlers
ErrorKwargs(e) == [status |-> "error", error_message |-> Some(e)]

\* the server after initialize_services: no request in progress
ServerInit ==
    /\ redis = <<>>
    /\ ttl = <<>>
    /\ allocated = {}
    /\ pc = [p \in Procs |-> "idle"]
    /\ route = [p \in Procs |-> None]
    /\ sid = [p \in Procs |-> None]
    /\ session = [p \in Procs |-> None]
    /\ upd = [p \in Procs |-> None]
    /\ user_input = [p \in Procs |-> None]
    /\ resp = [p \in Procs |-> None]
    /\ result = [p \in Procs |-> None]
    /\ called = [p \in Procs |-> FALSE]
    /\ completedOnce = {}
    /\ requests = 0
    /\ now = 0
    /\ keys = [p \in Procs |-> <<>>]
    /\ sessions = [p \in Procs |-> <<>>]
    /\ cutoff_time = [p \in Procs |-> None]
    /\ deleted_count = [p \in Procs |-> 0]
    /\ max_age_hours = [p \in Procs |-> None]

\* no mapper call is under way
Init ==
    /\ ServerInit
    /\ in_symptom = <<>>
    /\ in_context = [has_previous_reaction |-> FALSE, full_summary |-> <<>>]
    /\ in_data = None
    /\ out_severity = None
    /\ out_normalized = None
    /\ out_entries = None
    /\ out_ehr = None
    /\ out_summary = None

\* the handler returns the response r
Return(p, r) ==
    /\ pc' = [pc EXCEPT ![p] = "done"]
    /\ result' = [result EXCEPT ![p] = Some(r)]
    /\ session' = [session EXCEPT ![p] = None]
    /\ upd' = [upd EXCEPT ![p] = None]
    /\ user_input' = [user_input EXCEPT ![p] = None]
    /\ resp' = [resp EXCEPT ![p] = None]

\* update_session up to its get_session: on a missing key it returns False and
\* the route returns r; otherwise the attributes are set on the local object
UpdateGet(p, kwargs, r) ==
    IF get_session(Val(sid[p])) = None
    THEN /\ Return(p, r)
         /\ UNCHANGED <<redis, ttl, completedOnce>>
    ELSE /\ upd' = [upd EXCEPT ![p] = Some(SetAttrs(Val(get_session(Val(sid[p]))), kwargs))]
         /\ resp' = [resp EXCEPT ![p] = Some(r)]
         /\ pc' = [pc EXCEPT ![p] = "update_save"]
         /\ UNCHANGED <<redis, ttl, completedOnce, result, session, user_input>>

\* update_session: _save_session(session); the route returns
UpdateSave(p) ==
    /\ pc[p] = "update_save"
    /\ SaveSession(Touch(Val(upd[p])))
    /\ Return(p, Val(resp[p]))
    /\ UNCHANGED <<route, allocated, sid, called, requests>>
    /\ UNCHANGED <<now, scan, mapper>>

\* start_conversation: create_session (uuid4, SETEX)
StartConversation(p) ==
    /\ pc[p] = "idle"
    /\ requests < MaxRequests
    /\ requests' = requests + 1
    /\ \E id \in SessionIds \ allocated :
        /\ allocated' = allocated \cup {id}
        /\ SaveSession(ConversationSession(id))
        /\ sid' = [sid EXCEPT ![p] = Some(id)]
    /\ route' = [route EXCEPT ![p] = Some("start_conversation")]
    /\ pc' = [pc EXCEPT ![p] = "add_get"]
    /\ UNCHANGED <<session, upd, user_input, resp, result, called>>
    /\ UNCHANGED <<now, scan, mapper>>

StartResponse(id) ==
    [code |-> 201, session_id |-> id, message |-> initial_greeting, status |-> "active"]

\* start_conversation: add_message up to its get_session
AddMessageGet(p) ==
    /\ pc[p] = "add_get"
    /\ IF get_session(Val(sid[p])) = None
       THEN Return(p, StartResponse(Val(sid[p])))
       ELSE /\ upd' = [upd EXCEPT ![p] = get_session(Val(sid[p]))]
            /\ pc' = [pc EXCEPT ![p] = "add_save"]
            /\ UNCHANGED <<session, user_input, resp, result>>
    /\ UNCHANGED <<route, redis, ttl, allocated, sid, called, completedOnce, requests>>
    /\ UNCHANGED <<now, scan, mapper>>

\* start_conversation: add_message appends, saves and returns True
AddMessageSave(p) ==
    /\ pc[p] = "add_save"
    /\ SaveSession(Touch(AppendTo(Val(upd[p]), Message("assistant", initial_greeting))))
    /\ Return(p, StartResponse(Val(sid[p])))
    /\ UNCHANGED <<route, allocated, sid, called, requests>>
    /\ UNCHANGED <<now, scan, mapper>>

\* the characters of the reply texts
ReplyText ==
       ("Tell me more" :> <<"T", "e", "l", "l", " ", "m", "e", " ", "m", "o", "r", "e">>)
    @@ ("Thank you, I have everything I need." :>
           <<"T", "h", "a", "n", "k", " ", "y", "o", "u", ",", " ", "I", " ", "h", "a", "v", "e", " ", "e", "v", "e", "r", "y", "t", "h", "i", "n", "g", " ", "I", " ", "n", "e", "e", "d", ".">>)

\* send_message: "i have everything i need" in bot_response.lower()
conversation_ended(reply) ==
    Contains(lower(ReplyText[reply]),
             <<"i", " ", "h", "a", "v", "e", " ", "e", "v", "e", "r", "y", "t", "h", "i", "n", "g", " ", "i", " ", "n", "e", "e", "d">>)

\* str(e) of the TypeError `"message" not in data` raises for a number
NotIterable == "argument of type 'int' is not iterable"

\* send_message up to `user_input = data["message"]`
SendMessage(p, id, body) ==
    /\ pc[p] = "idle"
    /\ requests < MaxRequests
    /\ requests' = requests + 1
    /\ route' = [route EXCEPT ![p] = Some("send_message")]
    /\ sid' = [sid EXCEPT ![p] = Some(id)]
    /\ IF get_session(id) = None
       THEN Return(p, [code |-> 404, error |-> "Session not found"])
       ELSE IF Val(get_session(id)).status # "active"
       THEN Return(p, [code |-> 400, error |-> "Session is not active"])
       ELSE IF body = None
       THEN Return(p, [code |-> 400, error |-> "Message is required"])
       ELSE IF body = NumberBody
       THEN /\ pc' = [pc EXCEPT ![p] = "send_raise"]
            /\ UNCHANGED <<session, user_input, upd, resp, result>>
       ELSE /\ session' = [session EXCEPT ![p] = get_session(id)]
            /\ user_input' = [user_input EXCEPT ![p] = body]
            /\ pc' = [pc EXCEPT ![p] = "send_user"]
            /\ UNCHANGED <<upd, resp, result>>
    /\ UNCHANGED <<redis, ttl, allocated, called, completedOnce>>
    /\ UNCHANGED <<now, scan, mapper>>

\* send_message: `"message" not in data` raised; the except handler starts
\* update_session
SendBodyRaises(p) ==
    /\ pc[p] = "send_raise"
    /\ UpdateGet(p, ErrorKwargs(NotIterable), [code |-> 500, error |-> NotIterable])
    /\ UNCHANGED <<route, allocated, sid, called, requests>>
    /\ UNCHANGED <<now, scan, mapper>>

\* send_message: append_message(session, user_message)
SendAppendUser(p) ==
    /\ pc[p] = "send_user"
    /\ LET appended == Touch(AppendTo(Val(session[p]), Message("user", Val(user_input[p]))))
       IN /\ session' = [session EXCEPT ![p] = Some(appended)]
          /\ SaveSession(appended)
    /\ pc' = [pc EXCEPT ![p] = "send_model"]
    /\ UNCHANGED <<route, allocated, sid, upd, user_input, resp, result, called, requests>>
    /\ UNCHANGED <<now, scan, mapper>>

\* send_message: the model call raises; the except handler starts update_session
SendModelRaises(p, e) ==
    /\ pc[p] = "send_model"
    /\ called' = [called EXCEPT ![p] = TRUE]
    /\ UpdateGet(p, ErrorKwargs(e), [code |-> 500, error |-> e])
    /\ UNCHANGED <<route, allocated, sid, requests>>
    /\ UNCHANGED <<now, scan, mapper>>

\* send_message: `if not response.content` returns 500
SendModelEmpty(p) ==
    /\ pc[p] = "send_model"
    /\ called' = [called EXCEPT ![p] = TRUE]
    /\ Return(p, [code |-> 500, error |-> "Model returned no response"])
    /\ UNCHANGED <<route, redis, ttl, allocated, sid, completedOnce, requests>>
    /\ UNCHANGED <<now, scan, mapper>>

\* send_message: the model replies; append_message(session, bot_message)
SendAppendBot(p, reply) ==
    /\ pc[p] = "send_model"
    /\ called' = [called EXCEPT ![p] = TRUE]
    /\ SaveSession(Touch(AppendTo(Val(session[p]), Message("assistant", reply))))
    /\ Return(p, [code |-> 200, response |-> reply,
                  conversation_ended |-> conversation_ended(reply),
                  message_count |-> Len(Val(session[p]).messages) + 1])
    /\ UNCHANGED <<route, allocated, sid, requests>>
    /\ UNCHANGED <<now, scan, mapper>>

\* end_conversation up to the call of generate_summary
EndConversation(p, id) ==
    /\ pc[p] = "idle"
    /\ requests < MaxRequests
    /\ requests' = requests + 1
    /\ route' = [route EXCEPT ![p] = Some("end_conversation")]
    /\ sid' = [sid EXCEPT ![p] = Some(id)]
    /\ IF get_session(id) = None
       THEN Return(p, [code |-> 404, error |-> "Session not found"])
       ELSE IF AlreadyCompleted(Val(get_session(id)))
       THEN Return(p, [code |-> 200,
                       patient_data |-> Val(get_session(id)).patient_data,
                       pro_ctcae_data |-> Val(get_session(id)).pro_ctcae_data])
       ELSE /\ pc' = [pc EXCEPT ![p] = "end_generate"]
            /\ UNCHANGED <<session, upd, user_input, resp, result>>
    /\ UNCHANGED <<redis, ttl, allocated, called, completedOnce>>
    /\ UNCHANGED <<now, scan, mapper>>

\* end_conversation: generate_summary, then update_session up to its get_session
EndGenerate(p, outcome) ==
    /\ pc[p] = "end_generate"
    /\ called' = [called EXCEPT ![p] = TRUE]
    /\ LET summary == generate_summary(outcome)
       IN UpdateGet(p, EndKwargs(summary), EndResponse(summary))
    /\ UNCHANGED <<route, allocated, sid, requests>>
    /\ UNCHANGED <<now, scan, mapper>>

\* a mutant of DeleteResponse: the route reports a deletion whatever DEL returned
DeleteResponse_Always(deleted) == [code |-> 200, message |-> "Session deleted"]

\* delete_conversation: `if session_manager.delete_session(session_id)`
DeleteResponse(deleted) ==
    IF deleted > 0
    THEN [code |-> 200, message |-> "Session deleted"]
    ELSE [code |-> 404, error |-> "Session not found"]

\* redis_client.delete(key): the number of keys DEL removed
Deleted(id) == IF id \in DOMAIN redis THEN 1 ELSE 0

\* delete_conversation: delete_session (DEL)
DeleteConversation(p, id) ==
    /\ pc[p] = "idle"
    /\ requests < MaxRequests
    /\ requests' = requests + 1
    /\ route' = [route EXCEPT ![p] = Some("delete_conversation")]
    /\ sid' = [sid EXCEPT ![p] = Some(id)]
    /\ redis' = [k \in DOMAIN redis \ {id} |-> redis[k]]
    /\ ttl' = [k \in DOMAIN redis \ {id} |-> ttl[k]]
    /\ Return(p, DeleteResponse(Deleted(id)))
    /\ UNCHANGED <<allocated, called, completedOnce>>
    /\ UNCHANGED <<now, scan, mapper>>

\* the response is sent; the worker is free for the next request
Finish(p) ==
    /\ pc[p] = "done"
    /\ pc' = [pc EXCEPT ![p] = "idle"]
    /\ route' = [route EXCEPT ![p] = None]
    /\ sid' = [sid EXCEPT ![p] = None]
    /\ result' = [result EXCEPT ![p] = None]
    /\ called' = [called EXCEPT ![p] = FALSE]
    /\ UNCHANGED <<redis, ttl, allocated, session, upd, user_input, resp, completedOnce, requests>>
    /\ UNCHANGED <<now, scan, mapper>>

Next ==
    \E p \in Procs :
        \/ StartConversation(p)
        \/ AddMessageGet(p)
        \/ AddMessageSave(p)
        \/ \E id \in SessionIds, body \in Bodies : SendMessage(p, id, body)
        \/ SendBodyRaises(p)
        \/ SendAppendUser(p)
        \/ \E e \in ModelErrors : SendModelRaises(p, e)
        \/ SendModelEmpty(p)
        \/ \E reply \in BotReplies : SendAppendBot(p, reply)
        \/ \E id \in SessionIds : EndConversation(p, id)
        \/ \E outcome \in SummaryOutcomes : EndGenerate(p, outcome)
        \/ UpdateSave(p)
        \/ \E id \in SessionIds : DeleteConversation(p, id)
        \/ Finish(p)

Spec == Init /\ [][Next]_vars

\* requests served one at a time: no request starts before the one in progress
\* has returned and its response is sent
OneAtATime == \A p, q \in Procs : (pc[p] # "idle" /\ pc[q] # "idle") => p = q

SeqNext ==
    \E p \in Procs :
        \/ StartConversation(p) /\ OneAtATime'
        \/ AddMessageGet(p)
        \/ AddMessageSave(p)
        \/ \E id \in SessionIds, body \in Bodies : SendMessage(p, id, body) /\ OneAtATime'
        \/ SendBodyRaises(p)
        \/ SendAppendUser(p)
        \/ \E e \in ModelErrors : SendModelRaises(p, e)
        \/ SendModelEmpty(p)
        \/ \E reply \in BotReplies : SendAppendBot(p, reply)
        \/ \E id \in SessionIds : EndConversation(p, id) /\ OneAtATime'
        \/ \E outcome \in SummaryOutcomes : EndGenerate(p, outcome)
        \/ UpdateSave(p)
        \/ \E id \in SessionIds : DeleteConversation(p, id) /\ OneAtATime'
        \/ Finish(p)

SeqSpec == Init /\ [][SeqNext]_vars

\* ------------------------------------------------- key scans and the clock
\* redis_client.keys(pattern): the stored keys, in an order Redis chooses
Orderings(S) ==
    {o \in [1..Cardinality(S) -> S] : \A i, j \in 1..Cardinality(S) : o[i] = o[j] => i = j}

\* a mutant of SessionSummary: the summary carries the whole stored record
SessionSummary_Full(s) == s @@ [message_count |-> Len(s.messages)]

\* the dictionary list_sessions builds for one session
SessionSummary(s) ==
    [session_id |-> s.session_id, status |-> s.status, created_at |-> s.created_at,
     updated_at |-> s.updated_at, message_count |-> Len(s.messages)]

\* response of list_conversations
ListResponse(found) == [code |-> 200, count |-> Len(found), sessions |-> found]

\* response of cleanup_sessions
CleanupResponse(n) ==
    [code |-> 200, message |-> <<"Cleaned up ", n, " old session(s)">>, deleted_count |-> n]

\* a key scan returns r and drops its locals
ScanReturn(p, r) ==
    /\ Return(p, r)
    /\ keys' = [keys EXCEPT ![p] = <<>>]
    /\ sessions' = [sessions EXCEPT ![p] = <<>>]
    /\ cutoff_time' = [cutoff_time EXCEPT ![p] = None]
    /\ deleted_count' = [deleted_count EXCEPT ![p] = 0]
    /\ max_age_hours' = [max_age_hours EXCEPT ![p] = None]

\* list_conversations: list_sessions up to redis_client.keys (KEYS)
ListConversations(p) ==
    /\ pc[p] = "idle"
    /\ requests < MaxRequests
    /\ requests' = requests + 1
    /\ route' = [route EXCEPT ![p] = Some("list_conversations")]
    /\ \E order \in Orderings(DOMAIN redis) :
        IF order = <<>>
        THEN ScanReturn(p, ListResponse(<<>>))
        ELSE /\ keys' = [keys EXCEPT ![p] = order]
             /\ sessions' = [sessions EXCEPT ![p] = <<>>]
             /\ pc' = [pc EXCEPT ![p] = "list_get"]
             /\ UNCHANGED <<session, upd, user_input, resp, result, cutoff_time, deleted_count,
                            max_age_hours>>
    /\ UNCHANGED <<redis, ttl, allocated, sid, called, completedOnce, now, mapper>>

\* list_sessions: one turn of the loop (GET); the last turn returns the list
ListGet(p) ==
    /\ pc[p] = "list_get"
    /\ LET data == get_session(Head(keys[p]))
           found == IF data # None
                    THEN Append(sessions[p], SessionSummary(Val(data)))
                    ELSE sessions[p]
       IN IF Tail(keys[p]) = <<>>
          THEN ScanReturn(p, ListResponse(found))
          ELSE /\ keys' = [keys EXCEPT ![p] = Tail(@)]
               /\ sessions' = [sessions EXCEPT ![p] = found]
               /\ UNCHANGED <<pc, session, upd, user_input, resp, result, cutoff_time,
                              deleted_count, max_age_hours>>
    /\ UNCHANGED <<redis, ttl, allocated, route, sid, called, requests, completedOnce, now, mapper>>

\* cleanup_old_sessions: the loop moves to the next key, or the route returns
CleanupAdvance(p, n) ==
    IF Tail(keys[p]) = <<>>
    THEN ScanReturn(p, CleanupResponse(n))
    ELSE /\ keys' = [keys EXCEPT ![p] = Tail(@)]
         /\ deleted_count' = [deleted_count EXCEPT ![p] = n]
         /\ pc' = [pc EXCEPT ![p] = "cleanup_get"]
         /\ UNCHANGED <<session, upd, user_input, resp, result, sessions, cutoff_time,
                        max_age_hours>>

\* cleanup_sessions: cleanup_old_sessions up to redis_client.keys (KEYS)
CleanupSessions(p, hours) ==
    /\ pc[p] = "idle"
    /\ requests < MaxRequests
    /\ requests' = requests + 1
    /\ route' = [route EXCEPT ![p] = Some("cleanup_sessions")]
    /\ \E order \in Orderings(DOMAIN redis) :
        IF order = <<>>
        THEN ScanReturn(p, CleanupResponse(0))
        ELSE /\ max_age_hours' = [max_age_hours EXCEPT ![p] = Some(hours)]
             /\ cutoff_time' = [cutoff_time EXCEPT ![p] = Some(now - hours)]
             /\ keys' = [keys EXCEPT ![p] = order]
             /\ deleted_count' = [deleted_count EXCEPT ![p] = 0]
             /\ pc' = [pc EXCEPT ![p] = "cleanup_get"]
             /\ UNCHANGED <<session, upd, user_input, resp, result, sessions>>
    /\ UNCHANGED <<redis, ttl, allocated, sid, called, completedOnce, now, mapper>>

\* `if session_time < cutoff_time`
Expired(s, cutoff) == fromisoformat(s.updated_at) < cutoff

\* cleanup_old_sessions: one turn of the loop up to its GET and the comparison
CleanupGet(p) ==
    /\ pc[p] = "cleanup_get"
    /\ LET data == get_session(Head(keys[p]))
       IN IF data # None /\ Expired(Val(data), Val(cutoff_time[p]))
          THEN /\ pc' = [pc EXCEPT ![p] = "cleanup_delete"]
               /\ UNCHANGED <<session, upd, user_input, resp, result, scan>>
          ELSE CleanupAdvance(p, deleted_count[p])
    /\ UNCHANGED <<redis, ttl, allocated, route, sid, called, requests, completedOnce, now, mapper>>

\* cleanup_old_sessions: redis_client.delete(key) (DEL); deleted_count += 1
CleanupDelete(p) ==
    /\ pc[p] = "cleanup_delete"
    /\ redis' = [k \in DOMAIN redis \ {Head(keys[p])} |-> redis[k]]
    /\ ttl' = [k \in DOMAIN redis \ {Head(keys[p])} |-> ttl[k]]
    /\ CleanupAdvance(p, deleted_count[p] + 1)
    /\ UNCHANGED <<allocated, route, sid, called, requests, completedOnce, now, mapper>>

\* time passes: the next datetime.now() reads a later hour
Tick ==
    /\ now < MaxClock
    /\ now' = now + 1
    /\ UNCHANGED <<redis, ttl, allocated, pc, route, sid, session, upd, user_input, resp, result,
                   called, requests, completedOnce, scan, mapper>>

\* the store operations under a running clock: every route but end_conversation
NextClock ==
    \/ Tick
    \/ \E p \in Procs :
        \/ StartConversation(p)
        \/ AddMessageGet(p)
        \/ AddMessageSave(p)
        \/ \E id \in SessionIds, body \in Bodies : SendMessage(p, id, body)
        \/ SendBodyRaises(p)
        \/ SendAppendUser(p)
        \/ \E e \in ModelErrors : SendModelRaises(p, e)
        \/ SendModelEmpty(p)
        \/ \E reply \in BotReplies : SendAppendBot(p, reply)
        \/ UpdateSave(p)
        \/ \E id \in SessionIds : DeleteConversation(p, id)
        \/ ListConversations(p)
        \/ ListGet(p)
        \/ \E hours \in MaxAgeHours : CleanupSessions(p, hours)
        \/ CleanupGet(p)
        \/ CleanupDelete(p)
        \/ Finish(p)

ClockSpec == Init /\ [][NextClock]_vars

\* ------------------------------------------------------- the mapper alone
\* symptom texts handed to the mapper: every alias, an alias in other case with
\* blanks around it, a text that is no alias, and the empty text
SymptomTexts ==
    DOMAIN symptom_mappings
        \cup {<<"b", "a", "n", "a", "n", "a">>, <<" ", "C", "h", "e", "s", "t", " ", "P", "a", "i", "n", " ">>, <<>>}
        \cup {<<"I", "T", "C", "H", "Y", " ">>, <<"h", "i", "v", "e">>, <<"m", "y", " ", "i", "t", "c", "h", "i", "n", "g">>}
        \cup {<<"c", "o", "u", "g", "h">>, <<"c", "h", "i", "l", "l", "s">>,
              <<"s", "k", "i", "n", " ", "r", "e", "d", "n", "e", "s", "s">>,
              <<"e", "r", "y", "t", "h", "e", "m", "a">>}

\* a narrative without any severity keyword
Plain == <<"I", "t", " ", "i", "t", "c", "h", "e", "d", " ", "f", "o", "r", " ", "a", " ", "d", "a", "y">>

\* full_summary texts: none, plain, one keyword, two keywords in either order
Narratives ==
    {<<>>, Plain}
        \cup {Plain \o <<" ">> \o severity_keywords[i].keyword :
                 i \in DOMAIN severity_keywords}
        \cup {severity_keywords[i].keyword \o <<" ">> \o severity_keywords[j].keyword :
                 i, j \in DOMAIN severity_keywords}

\* the context dictionaries of estimate_severity
Contexts == [has_previous_reaction : BOOLEAN, full_summary : Narratives]

\* a caller is about to call estimate_severity(symptom, context)
MapperInit ==
    /\ ServerInit
    /\ in_symptom \in SymptomTexts
    /\ in_context \in Contexts
    /\ in_data = None
    /\ out_severity = None
    /\ out_normalized = None
    /\ out_entries = None
    /\ out_ehr = None
    /\ out_summary = None

\* the call returns
EstimateSeverity ==
    /\ out_severity = None
    /\ out_severity' = Some(estimate_severity(in_symptom, in_context))
    /\ UNCHANGED <<server, in_symptom, in_context, out_normalized, in_data, out_entries,
                   out_ehr, out_summary>>

\* normalize_symptom(symptom) returns
NormalizeSymptom ==
    /\ out_normalized = None
    /\ out_normalized' = Some(normalize_symptom(in_symptom))
    /\ UNCHANGED <<server, in_symptom, in_context, out_severity, in_data, out_entries,
                   out_ehr, out_summary>>

MapperNext ==
    \/ EstimateSeverity
    \/ NormalizeSymptom

MapperSpec == MapperInit /\ [][MapperNext]_vars

\* ------------------------------------------------- the history route
Roles == {"system", "user", "assistant"}

\* the message dictionaries a client of SessionManager stores: role and
\* content, the initial message possibly with a further key
InitialMessages ==
    {None} \cup {Some(Message(r, "hello")) : r \in Roles}
        \cup {Some([role |-> "system", content |-> "prompt", name |-> "config"])}

\* SessionManager.create_session(initial_message)
CreateSession(initial) ==
    /\ \E id \in SessionIds \ allocated :
        /\ allocated' = allocated \cup {id}
        /\ SaveSession([ConversationSession(id) EXCEPT
                            !.messages = IF initial = None THEN <<>> ELSE <<Val(initial)>>])
    /\ UNCHANGED <<pc, route, sid, session, upd, user_input, resp, result, called, requests>>
    /\ UNCHANGED <<now, scan, mapper>>

\* SessionManager.add_message(session_id, role, content) by the one client that
\* writes: get_session, append, updated_at, _save_session
AddMessage(id, role, content) ==
    /\ get_session(id) # None
    /\ Len(Val(get_session(id)).messages) < MaxMessages
    /\ SaveSession(Touch(AppendTo(Val(get_session(id)), Message(role, content))))
    /\ UNCHANGED <<allocated, pc, route, sid, session, upd, user_input, resp, result, called,
                   requests>>
    /\ UNCHANGED <<now, scan, mapper>>

\* a mutant of HistoryMessages: no message is filtered out
HistoryMessages_All(messages) ==
    [i \in 1..Len(messages) |-> [role |-> messages[i].role, content |-> messages[i].content]]

\* get_conversation_history: the list comprehension over session.messages
RECURSIVE HistoryMessages(_)
HistoryMessages(messages) ==
    IF messages = <<>> THEN <<>>
    ELSE (IF Head(messages).role # "system"
          THEN <<[role |-> Head(messages).role, content |-> Head(messages).content]>>
          ELSE <<>>)
         \o HistoryMessages(Tail(messages))

HistoryResponse(s) ==
    [code |-> 200, session_id |-> s.session_id, status |-> s.status,
     messages |-> HistoryMessages(s.messages)]

\* GET /api/conversation/<id>/history: one GET, then the response
GetConversationHistory(p, id) ==
    /\ pc[p] = "idle"
    /\ route' = [route EXCEPT ![p] = Some("get_conversation_history")]
    /\ sid' = [sid EXCEPT ![p] = Some(id)]
    /\ IF get_session(id) = None
       THEN Return(p, [code |-> 404, error |-> "Session not found"])
       ELSE Return(p, HistoryResponse(Val(get_session(id))))
    /\ UNCHANGED <<redis, ttl, allocated, called, completedOnce, requests>>
    /\ UNCHANGED <<now, scan, mapper>>

HistoryNext ==
    \/ \E initial \in InitialMessages : CreateSession(initial)
    \/ \E id \in SessionIds, r \in Roles : AddMessage(id, r, "more")
    \/ \E p \in Procs, id \in SessionIds : GetConversationHistory(p, id)
    \/ \E p \in Procs : Finish(p)

HistorySpec == Init /\ [][HistoryNext]_vars

\* ------------------------------------------------------- expiry of the keys
TtlHorizon == 25        \* hours the clock runs through

\* GET /api/conversation/<id>/status: one GET, then the response
GetConversationStatus(p, id) ==
    /\ pc[p] = "idle"
    /\ requests < MaxRequests
    /\ requests' = requests + 1
    /\ route' = [route EXCEPT ![p] = Some("get_conversation_status")]
    /\ sid' = [sid EXCEPT ![p] = Some(id)]
    /\ IF get_session(id) = None
       THEN Return(p, [code |-> 404, error |-> "Session not found"])
       ELSE Return(p, [code |-> 200, session |-> Val(get_session(id))])
    /\ UNCHANGED <<redis, ttl, allocated, called, completedOnce>>
    /\ UNCHANGED <<now, scan, mapper>>

\* a key whose time to live has run out
PastExpiry(id) == id \in DOMAIN redis /\ ttl[id] <= now

\* Redis removes a key whose time to live has run out
Expire ==
    /\ \E id \in DOMAIN redis :
        /\ PastExpiry(id)
        /\ redis' = [k \in DOMAIN redis \ {id} |-> redis[k]]
        /\ ttl' = [k \in DOMAIN redis \ {id} |-> ttl[k]]
    /\ UNCHANGED <<allocated, pc, route, sid, session, upd, user_input, resp, result,
                   called, requests, completedOnce, now, scan, mapper>>

\* an hour passes; no command sees a key past its expiry
Pass ==
    /\ now < TtlHorizon
    /\ \A id \in DOMAIN redis : ~PastExpiry(id)
    /\ now' = now + 1
    /\ UNCHANGED <<redis, ttl, allocated, pc, route, sid, session, upd, user_input, resp, result,
                   called, requests, completedOnce, scan, mapper>>

\* the commands of the routes that create, append, update and read, one
\* request at a time, run while no stored key is past its expiry; a SETEX runs
\* while its expiry is within the horizon
Setex == now + session_ttl \div 3600 <= TtlHorizon

TtlNext ==
    \/ Expire
    \/ Pass
    \/ /\ \A id \in DOMAIN redis : ~PastExpiry(id)
       /\ \E p \in Procs :
            \/ StartConversation(p) /\ Setex /\ OneAtATime'
            \/ AddMessageGet(p)
            \/ AddMessageSave(p) /\ Setex
            \/ \E id \in SessionIds, body \in Bodies : SendMessage(p, id, body) /\ OneAtATime'
            \/ SendBodyRaises(p)
            \/ SendAppendUser(p) /\ Setex
            \/ SendModelRaises(p, "Connection error.")
            \/ SendModelEmpty(p)
            \/ SendAppendBot(p, "Tell me more") /\ Setex
            \/ UpdateSave(p) /\ Setex
            \/ \E id \in SessionIds : GetConversationHistory(p, id) /\ OneAtATime'
            \/ \E id \in SessionIds : GetConversationStatus(p, id) /\ OneAtATime'
            \/ ListConversations(p) /\ OneAtATime'
            \/ ListGet(p)
            \/ Finish(p)

TtlSpec == Init /\ [][TtlNext]_vars /\ WF_vars(Pass) /\ WF_vars(Expire)

\* ------------------------------------------- the mapper on whole documents
\* items of reported_symptoms: aliases, an alias in capitals with blanks, a
\* text that is no alias, the empty text, null and a number
SymptomItems ==
    {JStr(t) : t \in {<<"h", "i", "v", "e", "s">>, <<" ", "I", "t", "c", "h", "y">>, <<"i", "t", "c", "h", "i", "n", "g">>, <<"d", "y", "s", "p", "n", "e", "a">>, <<"c", "h", "e", "s", "t", " ", "p", "a", "i", "n">>, <<"b", "a", "n", "a", "n", "a">>, <<>>}}
        \cup {JNull, JNum(3)}

\* reported_symptoms: each alias alone, and every list of up to MaxSymptoms items
SymptomLists ==
    {<<JStr(a)>> : a \in DOMAIN symptom_mappings}
        \cup UNION {[1..n -> SymptomItems] : n \in 0..MaxSymptoms}

Summaries ==
    {Missing, JNull, JStr(<<>>)}
        \cup {JStr(t) : t \in {<<"I", "t", " ", "w", "a", "s", " ", "m", "o", "d", "e", "r", "a", "t", "e">>, <<"s", "e", "v", "e", "r", "e">>, <<"a", "n", " ", "e", "x", "t", "r", "e", "m", "e", " ", "r", "e", "a", "c", "t", "i", "o", "n">>}}

Concerns ==
    {Missing, JNull, JStr(<<>>), JStr(no_concerns)}
        \cup {JStr(t) : t \in {<<"N", "o", " ", "C", "o", "n", "c", "e", "r", "n", "s">>, <<"I", " ", "h", "a", "v", "e", " ", "c", "o", "n", "c", "e", "r", "n", "s", " ", "a", "b", "o", "u", "t", " ", "t", "h", "e", " ", "d", "y", "e">>, <<"w", "o", "r", "r", "i", "e", "d">>}}

\* the documents parse_patient_json is given
Documents ==
    [reported_symptoms : {Missing, JNull} \cup {JList(l) : l \in SymptomLists},
     has_previous_reaction : {Missing, JBool(TRUE), JBool(FALSE)},
     full_summary : Summaries,
     patient_concerns : Concerns]

\* a caller is about to call parse_patient_json on a file holding a document
ParseInit ==
    /\ ServerInit
    /\ in_symptom = <<>>
    /\ in_context = [has_previous_reaction |-> FALSE, full_summary |-> <<>>]
    /\ in_data \in {Some(d) : d \in Documents}
    /\ out_severity = None
    /\ out_normalized = None
    /\ out_entries = None
    /\ out_ehr = None
    /\ out_summary = None

\* parse_patient_json returns or raises
ParsePatientJson ==
    /\ out_entries = None
    /\ out_entries' = Some(ParseDocument(Val(in_data)))
    /\ UNCHANGED <<server, in_symptom, in_context, out_severity, out_normalized, in_data,
                   out_ehr, out_summary>>

\* format_for_ehr_entry on the entries parse_patient_json returned
FormatForEhrEntry ==
    /\ out_entries # None
    /\ DOMAIN Val(out_entries) = {"entries"}
    /\ out_ehr = None
    /\ out_ehr' = Some(format_for_ehr_entry(Val(out_entries).entries))
    /\ UNCHANGED <<server, in_symptom, in_context, out_severity, out_normalized, in_data,
                   out_entries, out_summary>>

\* generate_clinical_summary on the entries parse_patient_json returned
GenerateClinicalSummary ==
    /\ out_entries # None
    /\ DOMAIN Val(out_entries) = {"entries"}
    /\ out_summary = None
    /\ out_summary' = Some(generate_clinical_summary(Val(out_entries).entries))
    /\ UNCHANGED <<server, in_symptom, in_context, out_severity, out_normalized, in_data,
                   out_entries, out_ehr>>

ParseNext ==
    \/ ParsePatientJson
    \/ FormatForEhrEntry
    \/ GenerateClinicalSummary

ParseSpec == ParseInit /\ [][ParseNext]_vars

\* ----------------------------------------------------------------- claims
Stored(id) == id \in DOMAIN redis
Terminal == {"completed", "error"}
\* handler p takes the step that returns its response
Returns(p) == pc[p] # "done" /\ pc'[p] = "done"

\* C1: once a session's stored status is completed or error, it never changes
\* to another status, whatever operations follow or interleave.
C1_TerminalStatusFinal ==
    [][\A id \in SessionIds :
        (Stored(id) /\ redis[id].status \in Terminal /\ id \in DOMAIN redis')
            => redis'[id].status = redis[id].status]_vars

\* C2: every mutating store operation acts atomically on the stored session:
\* an append that reports success leaves the stored message sequence equal to
\* the sequence stored just before it plus its message, so no concurrent
\* append is lost, and an update leaves the stored message sequence as it is.
C2_AppendAtomic ==
    [][\A p \in Procs :
        LET id == Val(sid[p])
        IN /\ (pc[p] = "update_save" /\ pc'[p] # "update_save" /\ Stored(id))
                => redis'[id].messages = redis[id].messages
           /\ (pc[p] = "add_save" /\ pc'[p] # "add_save" /\ Stored(id))
                => redis'[id].messages =
                       Append(redis[id].messages, Message("assistant", initial_greeting))
           /\ (pc[p] = "send_user" /\ pc'[p] # "send_user" /\ Stored(id))
                => redis'[id].messages =
                       Append(redis[id].messages, Message("user", Val(user_input[p])))
           /\ (pc[p] = "send_model" /\ Returns(p) /\ Val(result'[p]).code = 200 /\ Stored(id))
                => redis'[id].messages =
                       Append(redis[id].messages,
                              Message("assistant", Val(result'[p]).response))]_vars

\* C3: once a session's status is completed, its stored patient_data and
\* pro_ctcae_data never change again.
C3_CompletedDataImmutable ==
    [][\A id \in SessionIds :
        (Stored(id) /\ redis[id].status = "completed" /\ id \in DOMAIN redis')
            => /\ redis'[id].patient_data = redis[id].patient_data
               /\ redis'[id].pro_ctcae_data = redis[id].pro_ctcae_data]_vars

\* C4: patient_data and pro_ctcae_data of a stored session are both null in
\* every state before its status has first become completed.
C4_NullBeforeCompleted ==
    \A id \in DOMAIN redis :
        id \notin completedOnce
            => redis[id].patient_data = None /\ redis[id].pro_ctcae_data = None

\* C4 witness: a failed end-conversation has moved a never-completed session to
\* error, and its data fields are still null.
C4_Witness ==
    \E p \in Procs :
        /\ pc[p] = "done" /\ route[p] = Some("end_conversation")
        /\ Val(result[p]).code = 500
        /\ Stored(Val(sid[p])) /\ Val(sid[p]) \notin completedOnce
        /\ redis[Val(sid[p])].status = "error"
        /\ redis[Val(sid[p])].patient_data = None

\* C5: no message is appended to a session whose status is completed or error:
\* the stored message sequence of such a session stays as it is.
C5_NoAppendWhenTerminal ==
    [][\A id \in SessionIds :
        (Stored(id) /\ redis[id].status \in Terminal /\ id \in DOMAIN redis')
            => redis'[id].messages = redis[id].messages]_vars

\* C6: an end-conversation that runs generate_summary either succeeds (it
\* returns a non-null patient_data) or returns a failure description and
\* leaves the session, if still stored, in status error with a non-null
\* error_message -- never in active.
C6_FailedEndIsError ==
    [][\A p \in Procs :
        (route[p] = Some("end_conversation") /\ pc[p] \in {"end_generate", "update_save"}
            /\ Returns(p))
        => LET r == Val(result'[p])
               id == Val(sid[p])
           IN \/ r.code = 200 /\ r.patient_data # None
              \/ /\ r.code = 500 /\ r.error # ""
                 /\ id \in DOMAIN redis'
                        => /\ redis'[id].status = "error"
                           /\ redis'[id].error_message # None]_vars

\* C6 witness: an end-conversation has returned a failure and the session is
\* stored with status error.
C6_Witness ==
    \E p \in Procs :
        /\ pc[p] = "done" /\ route[p] = Some("end_conversation") /\ called[p]
        /\ Val(result[p]).code = 500
        /\ Stored(Val(sid[p])) /\ redis[Val(sid[p])].status = "error"
        /\ redis[Val(sid[p])].error_message = Some(Val(result[p]).error)

\* C7: end-conversation on a session stored as completed returns exactly the
\* stored patient_data and pro_ctcae_data in that one step, without invoking
\* the model and without changing the store.
C7_EndIdempotent ==
    [][\A p \in Procs, id \in SessionIds :
        (pc[p] = "idle" /\ route'[p] = Some("end_conversation") /\ sid'[p] = Some(id)
            /\ Stored(id) /\ redis[id].status = "completed")
        => /\ pc'[p] = "done"
           /\ result'[p] = Some([code |-> 200,
                                 patient_data |-> redis[id].patient_data,
                                 pro_ctcae_data |-> redis[id].pro_ctcae_data])
           /\ ~called'[p]
           /\ redis' = redis]_vars

\* C7 witness: an end-conversation found the session completed and returned the
\* stored data without a model call.
C7_Witness ==
    \E p \in Procs :
        /\ pc[p] = "done" /\ route[p] = Some("end_conversation") /\ ~called[p]
        /\ Val(result[p]).code = 200
        /\ Stored(Val(sid[p])) /\ redis[Val(sid[p])].status = "completed"
        /\ Val(result[p]).patient_data = redis[Val(sid[p])].patient_data

\* C8: when the model call of post-message fails (it raises or returns no
\* content), the request ends with the session, if still stored, in status
\* error and with the failure's description as its error_message.
C8_SendFailureIsError ==
    [][\A p \in Procs :
        (route[p] = Some("send_message") /\ pc[p] \in {"send_model", "update_save"}
            /\ Returns(p) /\ Val(result'[p]).code = 500 /\ Val(sid[p]) \in DOMAIN redis')
        => /\ redis'[Val(sid[p])].status = "error"
           /\ redis'[Val(sid[p])].error_message = Some(Val(result'[p]).error)]_vars

\* C9: in every reachable state a stored session whose status is error has a
\* non-null error_message.
C9_ErrorHasMessage ==
    \A id \in DOMAIN redis :
        redis[id].status = "error" => redis[id].error_message # None

\* C9 witness: a session is stored with status error.
C9_Witness ==
    \E id \in DOMAIN redis :
        redis[id].status = "error" /\ redis[id].error_message # None

\* C10: in every reachable state a stored session whose error_message is
\* non-null has status error.
C10_MessageOnlyOnError ==
    \A id \in DOMAIN redis :
        redis[id].error_message # None => redis[id].status = "error"

\* handler p takes the step that begins a request on `name`
Begins(p, name) == pc[p] = "idle" /\ route'[p] = Some(name)

C12_NotFoundLeavesStore ==
    [][\A p \in Procs :
        (/\ pc[p] \in {"add_get", "send_user", "send_model", "end_generate"}
         /\ pc'[p] # pc[p]
         /\ Val(sid[p]) \notin DOMAIN redis)
        => redis' = redis]_vars

\* the list a list_sessions call holds after its step
Listed(p) == IF pc'[p] = "done" THEN Val(result'[p]).sessions ELSE sessions'[p]

\* C13: delete(id) reports a deletion exactly when a session was stored under
\* id at the time of the call; right after it get(id) finds nothing, KEYS does
\* not return id, and a list read made while id is absent adds no summary
\* for id.
C13_DeleteExact ==
    [][\A p \in Procs :
        /\ \A id \in SessionIds :
            (Begins(p, "delete_conversation") /\ sid'[p] = Some(id))
            => /\ Val(result'[p]).code = 200 <=> id \in DOMAIN redis
               /\ Val(result'[p]).code = 404 <=> id \notin DOMAIN redis
               /\ id \notin DOMAIN redis'
               /\ \A o \in Orderings(DOMAIN redis') : \A i \in DOMAIN o : o[i] # id
        /\ (Begins(p, "list_conversations") /\ pc'[p] = "list_get")
            => \A i \in DOMAIN keys'[p] : keys'[p][i] \in DOMAIN redis
        /\ pc[p] = "list_get"
            => \A i \in DOMAIN Listed(p) :
                  i > Len(sessions[p]) => Listed(p)[i].session_id \in DOMAIN redis]_vars

\* C13 witness: a delete has reported success, its session is gone, and a list
\* request made afterwards has returned without a summary for it.
C13_Witness ==
    \E p, q \in Procs :
        /\ pc[p] = "done" /\ route[p] = Some("delete_conversation")
        /\ Val(result[p]).code = 200
        /\ Val(sid[p]) \in allocated /\ ~Stored(Val(sid[p]))
        /\ pc[q] = "done" /\ route[q] = Some("list_conversations")
        /\ Val(result[q]).count = 1
        /\ \A i \in DOMAIN Val(result[q]).sessions :
              Val(result[q]).sessions[i].session_id # Val(sid[p])

\* handler p takes a step of its key scan
ScanStep(p) == pc'[p] # pc[p] \/ keys'[p] # keys[p]

\* what cleanup_old_sessions has counted after its step
Counted(p) == IF pc'[p] = "done" THEN Val(result'[p]).deleted_count ELSE deleted_count'[p]

\* C14: cleanup removes exactly the sessions whose updated_at precedes its
\* cutoff (now minus max_age) and counts each removal: every key it deletes
\* holds, at the deletion, a session older than the cutoff, the deletion takes
\* that session alone out of the store and adds one to the count, and a key it
\* passes over holds no such session and leaves store and count as they are.
C14_CleanupExact ==
    [][\A p \in Procs :
        LET key == Head(keys[p])
            cutoff == Val(cutoff_time[p])
        IN /\ (pc[p] = "cleanup_delete" /\ ScanStep(p))
                => /\ key \in DOMAIN redis
                   /\ Expired(redis[key], cutoff)
                   /\ redis' = [k \in DOMAIN redis \ {key} |-> redis[k]]
                   /\ Counted(p) = deleted_count[p] + 1
           /\ (pc[p] = "cleanup_get" /\ ScanStep(p))
                => /\ redis' = redis
                   /\ pc'[p] # "cleanup_delete"
                        => /\ key \in DOMAIN redis => ~Expired(redis[key], cutoff)
                           /\ Counted(p) = deleted_count[p]]_vars

\* the reading of the clock cleanup_old_sessions started from
CleanupNow(p) == Val(cutoff_time[p]) + Val(max_age_hours[p])

\* age of a stored session as cleanup_old_sessions of handler p sees it
Age(p, k) == CleanupNow(p) - fromisoformat(redis[k].updated_at)

\* C15: cleanup with max_age_hours = 0 deletes every stored session it visits,
\* however recently it was updated (also one updated at the very time of the
\* cleanup), and cleanup with a max_age above the age of every stored session
\* deletes none.
C15_CleanupBounds ==
    [][\A p \in Procs :
        (pc[p] = "cleanup_get" /\ ScanStep(p) /\ Head(keys[p]) \in DOMAIN redis)
        => /\ max_age_hours[p] = Some(0) => pc'[p] = "cleanup_delete"
           /\ (\A k \in DOMAIN redis : Age(p, k) < Val(max_age_hours[p]))
                => pc'[p] # "cleanup_delete"]_vars

SummaryFields == {"session_id", "status", "created_at", "updated_at", "message_count"}

\* C16: list returns one summary per stored session: KEYS names every stored
\* session once, each read adds for a stored key one summary made only of id,
\* status, the two timestamps and a message count equal to the length of the
\* stored message sequence (no message content, patient_data or pro_ctcae_data)
\* and adds nothing for a key that is gone; the response counts the summaries,
\* and no two of them have one id.
C16_ListSummaries ==
    [][\A p \in Procs :
        /\ Begins(p, "list_conversations")
            => IF pc'[p] = "done"
               THEN DOMAIN redis = {} /\ Val(result'[p]).sessions = <<>>
               ELSE keys'[p] \in Orderings(DOMAIN redis)
        /\ (pc[p] = "list_get" /\ ScanStep(p))
            => LET key == Head(keys[p])
               IN IF key \in DOMAIN redis
                  THEN /\ Len(Listed(p)) = Len(sessions[p]) + 1
                       /\ SubSeq(Listed(p), 1, Len(sessions[p])) = sessions[p]
                       /\ LET s == Listed(p)[Len(Listed(p))]
                          IN /\ DOMAIN s = SummaryFields
                             /\ s.session_id = key
                             /\ s.status = redis[key].status
                             /\ s.created_at = redis[key].created_at
                             /\ s.updated_at = redis[key].updated_at
                             /\ s.message_count = Len(redis[key].messages)
                  ELSE Listed(p) = sessions[p]
        /\ (route[p] = Some("list_conversations") /\ Returns(p))
            => LET found == Val(result'[p]).sessions
               IN /\ Val(result'[p]).count = Len(found)
                  /\ \A i, j \in DOMAIN found :
                        found[i].session_id = found[j].session_id => i = j]_vars

\* C16 witness: a list request has returned the summaries of two stored
\* sessions, one of them with messages.
C16_Witness ==
    \E p \in Procs :
        /\ pc[p] = "done" /\ route[p] = Some("list_conversations")
        /\ Val(result[p]).count = 2
        /\ \E i \in DOMAIN Val(result[p]).sessions :
              LET s == Val(result[p]).sessions[i]
              IN /\ s.message_count > 0
                 /\ Stored(s.session_id)
                 /\ s.message_count = Len(redis[s.session_id].messages)

\* C17: sessions with different ids never contend: a step of a request
\* addressed to session id A (create, append, update, delete, post-message,
\* end-conversation) leaves every session stored under another id B exactly as
\* it was, and neither stores nor removes B, under every interleaving.
C17_NoContention ==
    [][\A p \in Procs, B \in SessionIds :
        (pc'[p] # pc[p] /\ sid'[p] # None /\ B # Val(sid'[p]))
        => /\ B \in DOMAIN redis <=> B \in DOMAIN redis'
           /\ B \in DOMAIN redis => redis'[B] = redis[B]]_vars

\* C17 witness: two sessions are stored; a post-message on one has appended the
\* user's message and the model's reply while the other still holds only its
\* greeting.
C17_Witness ==
    \E p \in Procs, B \in SessionIds :
        /\ pc[p] = "done" /\ route[p] = Some("send_message")
        /\ Val(result[p]).code = 200
        /\ B # Val(sid[p]) /\ Stored(B) /\ Stored(Val(sid[p]))
        /\ Len(redis[Val(sid[p])].messages) = 3
        /\ Len(redis[B].messages) = 1

IsPrefix(s, t) == Len(s) <= Len(t) /\ SubSeq(t, 1, Len(s)) = s

\* C18: the message sequence of a stored session is append-only: in every
\* step that leaves the session stored, the sequence stored before is a prefix
\* of the sequence stored after (no message removed, replaced or reordered).
C18_AppendOnly ==
    [][\A id \in SessionIds :
        (Stored(id) /\ id \in DOMAIN redis')
            => IsPrefix(redis[id].messages, redis'[id].messages)]_vars

\* the lower-cased narrative estimate_severity scans
Narrative == lower(in_context.full_summary)

\* positions in severity_keywords of the keywords the narrative contains
Found == {i \in DOMAIN severity_keywords : Contains(Narrative, severity_keywords[i].keyword)}

\* the precedence order of the keyword table: very severe, extreme, severe,
\* terrible, moderate, bad, mild, slight, as positions in severity_keywords
Precedence == <<4, 8, 3, 7, 2, 6, 1, 5>>

\* C19: when the narrative contains severity keywords, estimate_severity
\* returns the level of the one that comes first in the precedence order very
\* severe(4), extreme(4), severe(3), terrible(3), moderate(2), bad(2), mild(1),
\* slight(1), wherever the keywords stand in the text.
C19_KeywordPrecedence ==
    (out_severity # None /\ Found # {})
        => LET first == SetMin({r \in DOMAIN Precedence : Precedence[r] \in Found})
           IN Val(out_severity) = severity_keywords[Precedence[first]].level

\* symptom texts that denote dyspnea, chest pain or throat swelling
CriticalTexts ==
    {a \in DOMAIN symptom_mappings :
        symptom_mappings[a] \in {"shortness_of_breath", "chest_tightness"}}
        \cup {<<"t", "h", "r", "o", "a", "t", " ", "s", "w", "e", "l", "l", "i", "n", "g">>}

\* C20: when the narrative contains no severity keyword, estimate_severity
\* returns moderate (2) if the context has a prior reaction and the symptom
\* text, trimmed and lower-cased, denotes dyspnea, chest pain or throat
\* swelling, and mild (1) in every other case.
C20_DefaultSeverity ==
    (out_severity # None /\ Found = {})
        => Val(out_severity) =
              IF /\ in_context.has_previous_reaction
                 /\ strip(lower(in_symptom)) \in CriticalTexts
              THEN Severity.MODERATE
              ELSE Severity.MILD

C23_NormalizeExact ==
    out_normalized # None
        => LET form == strip(lower(in_symptom))
           IN /\ Val(out_normalized) = normalize_symptom(form)
              /\ form \in DOMAIN symptom_mappings
                    => Val(out_normalized) = Some(symptom_mappings[form])
              /\ form \notin DOMAIN symptom_mappings => Val(out_normalized) = None

\* C23 witness: a text in capitals with a trailing blank has been normalized to
\* the key of its lower-case form.
C23_Witness ==
    /\ in_symptom = <<"I", "T", "C", "H", "Y", " ">>
    /\ out_normalized = Some(Some("itching"))

\* parse_patient_json returned a list of entries
Parsed == out_entries # None /\ DOMAIN Val(out_entries) = {"entries"}
ParsedEntries == Val(out_entries).entries

\* the attribute fields an entry has a value in
PopulatedFields(e) ==
    (IF e.severity # None THEN {"Severity"} ELSE {})
        \cup (IF e.frequency # None THEN {"Frequency"} ELSE {})
        \cup (IF e.interference # None THEN {"Interference"} ELSE {})
        \cup (IF e.presence # None THEN {"Presence"} ELSE {})

\* the symptom definition an entry's code belongs to
ItemOfCode(code) == pro_ctcae_items[CHOOSE k \in DOMAIN pro_ctcae_items : pro_ctcae_items[k].code = code]

\* C22: for every alias of the alias table, the entry built for that reported
\* symptom carries the code of the symptom the alias maps to and has a value in
\* exactly the attribute fields that symptom's definition declares.
C22_DeclaredAttributes ==
    Parsed =>
        /\ \A i \in DOMAIN ParsedEntries :
              LET e == ParsedEntries[i]
                  form == strip(lower(Val(e.raw_text)))
              IN form \in DOMAIN symptom_mappings
                    => /\ e.code = pro_ctcae_items[symptom_mappings[form]].code
                       /\ PopulatedFields(e) = pro_ctcae_items[symptom_mappings[form]].attributes
        /\ \A a \in DOMAIN symptom_mappings :
              Val(in_data).reported_symptoms = JList(<<JStr(a)>>)
                 => /\ ParsedEntries # <<>>
                    /\ ParsedEntries[1].raw_text = Some(a)

C22_Witness ==
    /\ Parsed
    /\ \E a \in DOMAIN symptom_mappings :
          /\ Val(in_data).reported_symptoms = JList(<<JStr(a)>>)
          /\ PopulatedFields(ParsedEntries[1]) = {"Severity", "Interference"}

\* C24: an entry of a symptom whose definition declares Interference has
\* interference 3 when its severity is 3 or more, 2 when its severity is 2 and 1
\* otherwise; an entry of any other symptom has no interference.
C24_InterferenceFromSeverity ==
    Parsed =>
        \A i \in DOMAIN ParsedEntries :
           LET e == ParsedEntries[i]
           IN IF "Interference" \in ItemOfCode(e.code).attributes
              THEN /\ e.severity # None
                   /\ e.interference =
                         IF Val(e.severity) >= 3 THEN Some(3)
                         ELSE IF Val(e.severity) = 2 THEN Some(2)
                         ELSE Some(1)
              ELSE e.interference = None

C24_Witness ==
    /\ Parsed
    /\ \E i \in DOMAIN ParsedEntries :
          /\ ParsedEntries[i].severity = Some(4)
          /\ ParsedEntries[i].interference = Some(3)

\* the concerns text of the document, empty when the key is missing or null
ConcernsText ==
    LET c == Val(in_data).patient_concerns
    IN IF IsStr(c) THEN c.str ELSE <<>>

\* the positions of synthesized anxiety entries
Synthesized == {i \in DOMAIN ParsedEntries : ParsedEntries[i].raw_text = Some(expressed_concerns)}

\* C25: whatever the symptom list, the result holds a synthesized anxiety entry
\* exactly when the concerns text is non-empty, is not "no concerns" in any
\* letter case, and contains "concern" in any letter case; there is then one
\* such entry, with severity 1, frequency 2, interference 1 and the raw text
\* "Patient expressed concerns".
C25_AnxietyEntry ==
    Parsed =>
        LET low == lower(ConcernsText)
            trigger == /\ ConcernsText # <<>>
                       /\ low # <<"n", "o", " ", "c", "o", "n", "c", "e", "r", "n", "s">>
                       /\ Contains(low, <<"c", "o", "n", "c", "e", "r", "n">>)
        IN IF trigger
           THEN /\ Cardinality(Synthesized) = 1
                /\ \A i \in Synthesized :
                      /\ ParsedEntries[i].code = pro_ctcae_items["anxiety"].code
                      /\ ParsedEntries[i].severity = Some(1)
                      /\ ParsedEntries[i].frequency = Some(2)
                      /\ ParsedEntries[i].interference = Some(1)
           ELSE Synthesized = {}

C25_Witness ==
    /\ Parsed
    /\ Synthesized # {}
    /\ Len(ParsedEntries) >= 2

\* the codes of the symptom definitions the string items of a list map to, in
\* list order
RECURSIVE MappedCodes(_)
MappedCodes(items) ==
    IF items = <<>> THEN <<>>
    ELSE LET form == strip(lower(Head(items).str))
         IN (IF form \in DOMAIN symptom_mappings
             THEN <<pro_ctcae_items[symptom_mappings[form]].code>> ELSE <<>>)
            \o MappedCodes(Tail(items))

\* a sequence without the later occurrences of a value it already holds
RECURSIVE FirstOccurrences(_)
FirstOccurrences(s) ==
    IF s = <<>> THEN <<>>
    ELSE LET front == FirstOccurrences(SubSeq(s, 1, Len(s) - 1))
             last == s[Len(s)]
         IN IF \E i \in DOMAIN front : front[i] = last THEN front ELSE Append(front, last)

\* the reported symptoms of the document, empty when the key is missing
ReportedItems == Get(Val(in_data), "reported_symptoms", JList(<<>>)).list

\* C26: the entries are one per distinct mapped symptom of reported_symptoms,
\* in the order of the list, followed by at most one synthesized anxiety entry,
\* which is last; an unmapped symptom contributes no entry.
C26_OnePerDistinctSymptom ==
    Parsed =>
        LET n == Len(ParsedEntries) - Cardinality(Synthesized)
        IN /\ Cardinality(Synthesized) <= 1
           /\ Synthesized \subseteq {Len(ParsedEntries)}
           /\ [i \in 1..n |-> ParsedEntries[i].code] = FirstOccurrences(MappedCodes(ReportedItems))

\* C27: on a document whose reported_symptoms is a list (of any items) or is
\* missing, whatever full_summary and patient_concerns hold, parse_patient_json
\* does not raise: it returns entries, one per mapped item at most.
C27_NeverRaises ==
    (out_entries # None /\ IsList(Get(Val(in_data), "reported_symptoms", JList(<<>>))))
        => /\ Parsed
           /\ Len(ParsedEntries) <= Len(ReportedItems) + 1

\* the labels of the enum values 0..4, at index value + 1
SeverityTitles ==
    <<<<"N", "o", "n", "e">>,
      <<"M", "i", "l", "d">>,
      <<"M", "o", "d", "e", "r", "a", "t", "e">>,
      <<"S", "e", "v", "e", "r", "e">>,
      <<"V", "e", "r", "y", " ", "S", "e", "v", "e", "r", "e">>>>
FrequencyTitles ==
    <<<<"N", "e", "v", "e", "r">>,
      <<"R", "a", "r", "e", "l", "y">>,
      <<"O", "c", "c", "a", "s", "i", "o", "n", "a", "l", "l", "y">>,
      <<"F", "r", "e", "q", "u", "e", "n", "t", "l", "y">>,
      <<"A", "l", "m", "o", "s", "t", " ", "C", "o", "n", "s", "t", "a", "n", "t", "l", "y">>>>
InterferenceTitles ==
    <<<<"N", "o", "t", " ", "A", "t", " ", "A", "l", "l">>,
      <<"A", " ", "L", "i", "t", "t", "l", "e", " ", "B", "i", "t">>,
      <<"S", "o", "m", "e", "w", "h", "a", "t">>,
      <<"Q", "u", "i", "t", "e", " ", "A", " ", "B", "i", "t">>,
      <<"V", "e", "r", "y", " ", "M", "u", "c", "h">>>>

\* C28: format_for_ehr_entry returns a record of version "1.0" with one output
\* entry per input entry, in the same order; an output entry has the term, the
\* code and the reported text of its input entry, for every non-null severity,
\* frequency and interference the value and the label of that enum value, the
\* presence when non-null, and no key for a null attribute.
C28_FormatForRecord ==
    out_ehr # None =>
        LET r == Val(out_ehr)
        IN /\ Parsed
           /\ r.pro_ctcae_version = "1.0"
           /\ Len(r.entries) = Len(ParsedEntries)
           /\ \A i \in DOMAIN ParsedEntries :
                 LET e == ParsedEntries[i]
                     o == r.entries[i]
                 IN /\ DOMAIN o = {"symptom_term", "code", "patient_reported_text"}
                                     \cup {lowerName \in {"severity", "frequency", "interference", "presence"} :
                                             e[lowerName] # None}
                    /\ o.symptom_term = e.symptom_term
                    /\ o.code = e.code
                    /\ o.patient_reported_text = e.raw_text
                    /\ e.severity # None
                          => o.severity = [value |-> Val(e.severity),
                                           label |-> SeverityTitles[Val(e.severity) + 1]]
                    /\ e.frequency # None
                          => o.frequency = [value |-> Val(e.frequency),
                                            label |-> FrequencyTitles[Val(e.frequency) + 1]]
                    /\ e.interference # None
                          => o.interference = [value |-> Val(e.interference),
                                               label |-> InterferenceTitles[Val(e.interference) + 1]]
                    /\ e.presence # None => o.presence = Val(e.presence)

C28_Witness ==
    /\ out_ehr # None
    /\ Len(Val(out_ehr).entries) = 3
    /\ DOMAIN Val(out_ehr).entries[1] = {"symptom_term", "code", "patient_reported_text", "presence"}
    /\ "severity" \in DOMAIN Val(out_ehr).entries[2]
    /\ Val(out_ehr).entries[2].severity.value = 3
    /\ Val(out_ehr).entries[2].severity.label = <<"S", "e", "v", "e", "r", "e">>
    /\ Val(out_ehr).entries[3].frequency.label
          = <<"O", "c", "c", "a", "s", "i", "o", "n", "a", "l", "l", "y">>

\* the "TERM (CODE)" texts of the entries at the positions of a set, in order
RECURSIVE TermsAt(_, _)
TermsAt(entries, positions) ==
    IF entries = <<>> THEN <<>>
    ELSE LET n == Len(entries)
             e == entries[n]
         IN TermsAt(SubSeq(entries, 1, n - 1), positions)
               \o (IF n \in positions THEN <<e.symptom_term \o " (" \o e.code \o ")">> ELSE <<>>)

\* the positions of the entries of severity 3 or more, of severity 2, and of
\* the others (severity 1 or none)
SeverePositions ==
    {i \in DOMAIN ParsedEntries :
        ParsedEntries[i].severity # None /\ Val(ParsedEntries[i].severity) >= 3}
ModeratePositions ==
    {i \in DOMAIN ParsedEntries : ParsedEntries[i].severity = Some(2)}
MildPositions == DOMAIN ParsedEntries \ (SeverePositions \cup ModeratePositions)

\* the line of a bucket: nothing when it is empty
BucketLine(name, positions) ==
    IF positions = {} THEN ""
    ELSE name \o ": " \o join(", ", TermsAt(ParsedEntries, positions)) \o "\n"

\* the report: header, the lines of the non-empty buckets, footer with the total
Report ==
    "PRO-CTCAE Assessment Summary:\n----------------------------------------\n"
        \o BucketLine("SEVERE", SeverePositions)
        \o BucketLine("MODERATE", ModeratePositions)
        \o BucketLine("MILD", MildPositions)
        \o "----------------------------------------\n"
        \o "Total symptoms reported: "
        \o ToString(Cardinality(SeverePositions) + Cardinality(ModeratePositions)
                        + Cardinality(MildPositions))
        \o "\n"

\* C29 as stated: for every entry list the text of generate_clinical_summary is
\* the report with each entry in one bucket (severity >= 3 severe, 2 moderate,
\* otherwise mild), input order inside a bucket, a line only for a non-empty
\* bucket, and a total equal to the number of entries.
C29_Summarize ==
    out_summary # None
        => /\ Cardinality(SeverePositions) + Cardinality(ModeratePositions)
                 + Cardinality(MildPositions) = Len(ParsedEntries)
           /\ Val(out_summary) = Report

\* C29 amended: for a non-empty entry list the text is that report; for the
\* empty list it is the sentence "No PRO-CTCAE symptoms reported.", with no
\* header, bucket line or total.
C29_SummarizeNonEmpty ==
    out_summary # None
        => IF ParsedEntries = <<>>
           THEN Val(out_summary) = "No PRO-CTCAE symptoms reported."
           ELSE /\ Cardinality(SeverePositions) + Cardinality(ModeratePositions)
                      + Cardinality(MildPositions) = Len(ParsedEntries)
                /\ Val(out_summary) = Report

C29_Witness ==
    /\ out_summary # None
    /\ Cardinality(SeverePositions) = 2
    /\ Cardinality(MildPositions) = 1
    /\ ParsedEntries[1].code # ParsedEntries[2].code

\* C30: a history request answers a stored session with its messages without
\* those of role system, the others in stored order, each with its role and its
\* content; it answers 404 for an identifier with no stored session; it leaves
\* the store as it is.
C30_HistoryFiltersSystem ==
    [][\A p \in Procs :
        Begins(p, "get_conversation_history")
            => LET id == Val(sid'[p])
                   r == Val(result'[p])
               IN /\ redis' = redis
                  /\ pc'[p] = "done"
                  /\ IF id \in DOMAIN redis
                     THEN LET stored == redis[id].messages
                              kept == SelectSeq(stored, LAMBDA m : m.role # "system")
                          IN /\ r.code = 200
                             /\ r.session_id = id
                             /\ r.status = redis[id].status
                             /\ Len(r.messages) = Len(kept)
                             /\ \A i \in DOMAIN kept :
                                   /\ DOMAIN r.messages[i] = {"role", "content"}
                                   /\ r.messages[i].role = kept[i].role
                                   /\ r.messages[i].content = kept[i].content
                     ELSE r.code = 404]_vars

C30_Witness ==
    \E p \in Procs :
        /\ pc[p] = "done"
        /\ route[p] = Some("get_conversation_history")
        /\ Val(result[p]).code = 200
        /\ Val(sid[p]) \in DOMAIN redis
        /\ Len(redis[Val(sid[p])].messages) = 2
        /\ redis[Val(sid[p])].messages[1].role = "system"
        /\ Len(Val(result[p]).messages) = 1

\* C37: every value of the alias table is a key of the taxonomy, and every key
\* of the taxonomy is what normalize_symptom returns for at least one text, an
\* alias or any other text handed to the mapper.
C37_TablesComplete ==
    /\ \A a \in DOMAIN symptom_mappings : symptom_mappings[a] \in DOMAIN pro_ctcae_items
    /\ \A k \in DOMAIN pro_ctcae_items :
          \E t \in DOMAIN symptom_mappings \cup SymptomTexts \cup {in_symptom} :
             normalize_symptom(t) = Some(k)

\* C34: when requests are served one at a time, a stored session with status
\* completed has a patient_data, and it has a pro_ctcae_data exactly when
\* parse_patient_json yields at least one entry for that patient_data.
C34_CompletedHasData ==
    \A id \in DOMAIN redis :
        redis[id].status = "completed"
            => /\ redis[id].patient_data # None
               /\ redis[id].pro_ctcae_data # None
                     <=> parse_patient_json(Val(redis[id].patient_data)) # <<>>

C34_Witness ==
    \E id, other \in DOMAIN redis :
        /\ redis[id].status = "completed"
        /\ redis[id].pro_ctcae_data = None
        /\ redis[other].status = "completed"
        /\ redis[other].pro_ctcae_data # None

\* C31: the save of an update on a stored session changes, of the stored
\* fields, only those the update names (status and error_message for the error
\* handlers; status, patient_data and pro_ctcae_data for the completing update)
\* and updated_at: session_id, created_at, the messages and every unnamed field
\* stay as stored.
C31_UpdateFrame ==
    [][\A p \in Procs :
        (pc[p] = "update_save" /\ pc'[p] = "done" /\ Stored(Val(sid[p])))
            => LET id == Val(sid[p])
                   named == IF Val(resp[p]).code = 500
                            THEN {"status", "error_message"}
                            ELSE {"status", "patient_data", "pro_ctcae_data"}
               IN /\ id \in DOMAIN redis'
                  /\ \A f \in DOMAIN redis[id] \ (named \cup {"updated_at"}) :
                        redis'[id][f] = redis[id][f]]_vars

\* C32: a session that was created and is no longer stored stays absent: no
\* step of any request stores it again.
C32_DeletedStaysDeleted ==
    [][\A id \in allocated : id \notin DOMAIN redis => id \notin DOMAIN redis']_vars

\* C33: no step of an end-conversation request changes the stored message
\* sequence of its session, whether the request ends in 200 or in an error.
C33_EndKeepsMessages ==
    [][\A p \in Procs :
        (route'[p] = Some("end_conversation") /\ pc'[p] # pc[p] /\ Stored(Val(sid'[p])))
            => /\ Val(sid'[p]) \in DOMAIN redis'
               /\ redis'[Val(sid'[p])].messages = redis[Val(sid'[p])].messages]_vars

\* C35: in a post-message request on a stored active session, the append of the
\* user's message extends the stored sequence by that message, the append of
\* the reply extends it by the assistant's message and the request returns 200,
\* both leave the status active whatever the returned conversation_ended flag;
\* when the model call fails, the steps that follow leave the stored messages
\* as they are.
C35_PostAppendsTwo ==
    [][\A p \in Procs :
        (route[p] = Some("send_message") /\ pc'[p] # pc[p] /\ Stored(Val(sid[p]))
            /\ redis[Val(sid[p])].status = "active")
            => LET id == Val(sid[p])
               IN /\ pc[p] = "send_user"
                     => /\ id \in DOMAIN redis'
                        /\ redis'[id].messages
                              = Append(redis[id].messages, Message("user", Val(user_input[p])))
                        /\ redis'[id].status = "active"
                  /\ (pc[p] = "send_model" /\ pc'[p] = "done" /\ Val(result'[p]).code = 200)
                     => /\ id \in DOMAIN redis'
                        /\ redis'[id].messages
                              = Append(redis[id].messages,
                                       Message("assistant", Val(result'[p]).response))
                        /\ redis'[id].status = "active"
                        /\ Val(result'[p]).conversation_ended \in BOOLEAN
                  /\ (called'[p] /\ (pc'[p] = "update_save" \/ Val(result'[p]).code = 500))
                     => /\ id \in DOMAIN redis'
                        /\ redis'[id].messages = redis[id].messages]_vars

\* C38: a post-message request that is answered before the model is called and
\* that carried no message text (unknown session, session not active, body
\* without a message) changes nothing in the store in any of its steps.
C38_RejectionLeavesStore ==
    [][\A p \in Procs :
        (route'[p] = Some("send_message") /\ pc'[p] # pc[p]
            /\ ~called'[p] /\ user_input[p] = None /\ user_input'[p] = None)
            => redis' = redis]_vars

\* C36: a step that stores a session or changes a stored one sets the key's
\* expiry to the full SESSION_TTL_HOURS from the time of the step; a step that
\* leaves a stored session as it is, and every step of a history, status or
\* list request, leaves the expiry as it is; a key goes away only once its
\* expiry is reached, no stored key is past its expiry, a history or status
\* request answers 200 only for a key before its expiry; and every stored
\* session is eventually absent, in a run that never calls cleanup.
ReadRoutes ==
    {Some("get_conversation_history"), Some("get_conversation_status"),
     Some("list_conversations")}

C36_ExpiryStep ==
    /\ \A id \in SessionIds :
        /\ (id \in DOMAIN redis' /\ (id \notin DOMAIN redis \/ redis'[id] # redis[id]))
              => ttl'[id] = now + SESSION_TTL_HOURS
        /\ (id \in DOMAIN redis /\ id \in DOMAIN redis' /\ redis'[id] = redis[id])
              => ttl'[id] = ttl[id]
        /\ (id \in DOMAIN redis /\ id \notin DOMAIN redis') => ttl[id] <= now
    /\ \A p \in Procs :
        (pc'[p] # pc[p] /\ route'[p] \in ReadRoutes)
            => /\ ttl' = ttl
               /\ redis' = redis
               /\ (pc'[p] = "done" /\ route'[p] # Some("list_conversations")
                        /\ Val(result'[p]).code = 200)
                     => (Val(sid'[p]) \in DOMAIN redis /\ now < ttl[Val(sid'[p])])
               /\ (route'[p] # Some("list_conversations")
                        /\ Val(sid'[p]) \in allocated /\ Val(sid'[p]) \notin DOMAIN redis)
                     => Val(result'[p]).code = 404

C36_ExpiryResetAndLapse ==
    /\ [][C36_ExpiryStep]_vars
    /\ [](\A id \in DOMAIN redis : now <= ttl[id])
    /\ \A id \in SessionIds : Stored(id) ~> ~Stored(id)

\* at the horizon every session created has run out, and a status request for
\* one of them was answered 404
C36_Witness ==
    \E p \in Procs :
        /\ pc[p] = "done"
        /\ route[p] = Some("get_conversation_status")
        /\ Val(result[p]).code = 404
        /\ Val(sid[p]) \in allocated
        /\ redis = <<>>
        /\ now = TtlHorizon

====
